---- MODULE Spec2Model ----
(***************************************************************************)
(* The operator console of naman7474/social-media-tool: the AI profile     *)
(* editor (AiProfileEditor.tsx) and the post queue (PostQueue.tsx), with   *)
(* the request gateway (lib/api-client) they call.                         *)
(*                                                                         *)
(* SpecEditor is the state machine of one mounted AiProfileEditor,         *)
(* SpecQueue that of one mounted PostQueue.                                *)
(***************************************************************************)
EXTENDS Integers, Sequences, FiniteSets, TLC

VARIABLES
    \* ---- AiProfileEditor (React state, requests in flight, timers) ----
    configObj,      \* useState<JsonObject>: the in-memory document
    rawConfig,      \* useState<string>: the raw view's text (lexed: a token sequence)
    category,       \* useState<string>
    loading,        \* useState(true)
    saving,         \* useState(false)
    message,        \* useState<{text, type} | null>
    activeTab,      \* useState('basics')
    loadReq,        \* the GET ai-config request of fetchConfig, while in flight
    saveReq,        \* the PUT ai-config request of handleSave, while in flight
    timers,         \* pending setTimeout(() => setMessage(null), 3000) callbacks
    edLast,         \* history: what the last editor handler did and saw
    edHist,         \* history: the document last loaded, how it was changed since, what the raw text is
    edCount,        \* history: the user inputs so far
    \* ---- PostQueue (React state, requests in flight) and its environment ----
    posts,          \* useState<PostRow[]>: the post list
    qLoading,       \* useState(true): loading
    qError,         \* useState<string | null>: error
    actionError,    \* useState<string | null>
    scheduleInput,  \* useState<Record<number, string>>
    qReqs,          \* the requests of the queue in flight, in the order sent
    srvPosts,       \* the server's posts of the brand
    host,           \* the browser's time zone: its identifier and UTC offset
    brandTz,        \* Brand.timezone of the selected brand
    qFetched,       \* history: the response of the last list fetch that completed
    qCount,         \* history: the user inputs so far
    qLast,          \* history: what the last queue handler did and saw
    \* ---- the request gateway (apiFetch) and the page it runs in ----
    document,       \* the page's document: its cookies in the order of document.cookie, or none
    gwSent,         \* the request apiFetch last handed to fetch()
    gwLast,         \* history: the arguments and the outcome of the last apiFetch call
    \* ---- TelegramConfigForm (React state, the request in flight) ----
    formData,       \* useState({telegram_bot_token, telegram_webhook_secret, allowed_user_ids})
    tgLoading,      \* useState(false): loading
    tgMessage,      \* useState<{text, type} | null>: message
    tgReq,          \* the PUT /admin/brands/{id} request of handleSubmit, while in flight
    tgLast,         \* history: what the last form handler did and saw
    \* ---- DashboardContent (React state, route, requests in flight) and its children ----
    activeBrandId,  \* searchParams.get('brand_id'); 0 stands for null
    dbData,         \* useState<DashboardPayload | null>: data
    dbLoading,      \* useState(true): loading
    dbError,        \* useState<string | null>: error
    pathname,       \* the route the router shows
    dbReqs,         \* the requests of the page and of its children in flight, in the order sent
    children,       \* the mounted AiProfileEditor and PostQueue instances and their state
    dbClicks,       \* history: the user inputs so far
    dbLast          \* history: what the last handler of the page did and saw

edVars == <<configObj, rawConfig, category, loading, saving, message, activeTab,
            loadReq, saveReq, timers, edLast, edHist, edCount>>

qVars == <<posts, qLoading, qError, actionError, scheduleInput, qReqs, srvPosts, host, brandTz,
           qFetched, qCount, qLast>>

gwVars == <<document, gwSent, gwLast>>

tgVars == <<formData, tgLoading, tgMessage, tgReq, tgLast>>

dbVars == <<activeBrandId, dbData, dbLoading, dbError, pathname, dbReqs, children, dbClicks, dbLast>>

vars == <<edVars, qVars, gwVars, tgVars, dbVars>>

(***************************************************************************)
(* JSON values.  A JsonValue is a tagged record; a JsonObject is a map     *)
(* from keys to values (a function with a finite set of strings as its     *)
(* domain).  Undef is JavaScript's undefined (an absent property).         *)
(***************************************************************************)
Str(s) == [t |-> "str", s |-> s]
Num(n) == [t |-> "num", n |-> n]
Bool(b) == [t |-> "bool", b |-> b]
Null == [t |-> "null"]
Undef == [t |-> "undef"]
Arr(q) == [t |-> "arr", e |-> q]
Obj(m) == [t |-> "obj", o |-> m]
Ref(a) == [t |-> "ref", a |-> a]

EmptyMap == [k \in {} |-> Null]
EmptyObj == Obj(EmptyMap)

\* m with m[k] = v (a JavaScript property assignment on a map)
SetKey(m, k, v) == [x \in (DOMAIN m) \cup {k} |-> IF x = k THEN v ELSE m[x]]

\* m[k], or undefined
GetKey(m, k) == IF k \in DOMAIN m THEN m[k] ELSE Undef

\* Boolean(value)
Truthy(v) ==
    CASE v.t = "undef" -> FALSE
      [] v.t = "null" -> FALSE
      [] v.t = "bool" -> v.b
      [] v.t = "num" -> v.n # 0
      [] v.t = "str" -> v.s # ""
      [] v.t = "nan" -> FALSE
      [] OTHER -> TRUE

\* isJsonObject(value): Boolean(value) && typeof value === 'object' &&
\* !Array.isArray(value)
isJsonObject(v) == Truthy(v) /\ v.t \in {"obj", "ref", "arr", "null"} /\ ~(v.t = "arr")

(***************************************************************************)
(* Text.  A text is the sequence of its JSON tokens: the punctuation       *)
(* marks, and the scalar literals (a string literal is also what a key is  *)
(* written as).  A text that is no JSON document is a token sequence the   *)
(* grammar rejects.                                                        *)
(***************************************************************************)
P(c) == [t |-> "p", c |-> c]

\* The keys of the model's documents, in the order serialisation writes them.
KeyOrder == <<"config", "scheduled_for", "scheduled_timezone", "language", "brand", "tagline", "caption_rules", "max_length", "custom", "a">>

RECURSIVE OtherKeys(_)
\* the keys ks, one after the other
OtherKeys(ks) ==
    IF ks = {} THEN <<>>
    ELSE LET k == CHOOSE x \in ks : TRUE IN <<k>> \o OtherKeys(ks \ {k})

RECURSIVE KeysInOrder(_, _)
\* the keys ks as a sequence: those of KeyOrder from the i-th on, then the
\* keys typed into a control
KeysInOrder(ks, i) ==
    IF i > Len(KeyOrder) THEN OtherKeys(ks \ {KeyOrder[j] : j \in 1..Len(KeyOrder)})
    ELSE (IF KeyOrder[i] \in ks THEN <<KeyOrder[i]>> ELSE <<>>) \o KeysInOrder(ks, i + 1)

RECURSIVE JsonStringify(_)
RECURSIVE StringifyMembers(_, _)
RECURSIVE StringifyElements(_, _)

\* the members of object map m for the keys ks (a sequence), comma-separated
StringifyMembers(m, ks) ==
    IF ks = <<>> THEN <<>>
    ELSE <<Str(Head(ks)), P(":")>> \o JsonStringify(m[Head(ks)])
         \o (IF Len(ks) > 1 THEN <<P(",")>> ELSE <<>>)
         \o StringifyMembers(m, Tail(ks))

StringifyElements(q, i) ==
    IF i > Len(q) THEN <<>>
    ELSE JsonStringify(q[i])
         \o (IF i < Len(q) THEN <<P(",")>> ELSE <<>>)
         \o StringifyElements(q, i + 1)

\* JSON.stringify(value, null, 2)
JsonStringify(v) ==
    CASE v.t = "obj" -> <<P("{")>> \o StringifyMembers(v.o, KeysInOrder(DOMAIN v.o, 1)) \o <<P("}")>>
      [] v.t = "arr" -> <<P("[")>> \o StringifyElements(v.e, 1) \o <<P("]")>>
      [] v.t = "nan" -> <<Null>>
      [] OTHER -> <<v>>

(***************************************************************************)
(* JSON.parse: a recursive-descent parser.  Each Parse* operator reads     *)
(* from position i of the text and yields [ok, v, i]: whether it could     *)
(* read, the value read and the position after it.                         *)
(***************************************************************************)
ParseFail == [ok |-> FALSE, v |-> Undef, i |-> 0]

IsTok(txt, i, c) == i <= Len(txt) /\ txt[i] = P(c)

RECURSIVE ParseValue(_, _)
RECURSIVE ParseMembers(_, _, _)
RECURSIVE ParseElements(_, _, _)

\* members after "{" or ",": key ":" value, then "," or "}"; a repeated key
\* takes its last value
ParseMembers(txt, i, m) ==
    IF i + 1 > Len(txt) \/ txt[i].t # "str" \/ txt[i + 1] # P(":") THEN ParseFail
    ELSE LET r == ParseValue(txt, i + 2)
         IN  IF ~r.ok THEN ParseFail
             ELSE LET m2 == SetKey(m, txt[i].s, r.v)
                  IN  IF IsTok(txt, r.i, ",") THEN ParseMembers(txt, r.i + 1, m2)
                      ELSE IF IsTok(txt, r.i, "}") THEN [ok |-> TRUE, v |-> Obj(m2), i |-> r.i + 1]
                      ELSE ParseFail

ParseElements(txt, i, q) ==
    LET r == ParseValue(txt, i)
    IN  IF ~r.ok THEN ParseFail
        ELSE IF IsTok(txt, r.i, ",") THEN ParseElements(txt, r.i + 1, Append(q, r.v))
        ELSE IF IsTok(txt, r.i, "]") THEN [ok |-> TRUE, v |-> Arr(Append(q, r.v)), i |-> r.i + 1]
        ELSE ParseFail

ParseValue(txt, i) ==
    IF i > Len(txt) THEN ParseFail
    ELSE IF txt[i] = P("{") THEN
        (IF IsTok(txt, i + 1, "}") THEN [ok |-> TRUE, v |-> EmptyObj, i |-> i + 2]
         ELSE ParseMembers(txt, i + 1, EmptyMap))
    ELSE IF txt[i] = P("[") THEN
        (IF IsTok(txt, i + 1, "]") THEN [ok |-> TRUE, v |-> Arr(<<>>), i |-> i + 2]
         ELSE ParseElements(txt, i + 1, <<>>))
    ELSE IF txt[i].t \in {"str", "num", "bool", "null"} THEN [ok |-> TRUE, v |-> txt[i], i |-> i + 1]
    ELSE ParseFail

\* JSON.parse(text): [ok, v]; ok = FALSE is the SyntaxError it throws
JsonParse(txt) ==
    LET r == ParseValue(txt, 1)
    IN  IF r.ok /\ r.i = Len(txt) + 1 THEN [ok |-> TRUE, v |-> r.v] ELSE [ok |-> FALSE, v |-> Undef]

(***************************************************************************)
(* The object graph of one updateField call.  A heap is a sequence of      *)
(* nodes; a node is one JavaScript object: a map from keys to scalars,     *)
(* arrays and references (Ref) to other nodes.  Assigning through a        *)
(* reference changes the node for every holder of a reference to it.       *)
(***************************************************************************)
RECURSIVE Deref(_, _)
\* the JSON value that heap value v denotes in heap h
Deref(h, v) ==
    IF v.t = "ref" THEN Obj([k \in DOMAIN h[v.a] |-> Deref(h, h[v.a][k])]) ELSE v

RECURSIVE Alloc(_, _)
RECURSIVE AllocMembers(_, _, _, _)

\* node a of h filled with fresh copies of the members of m for the keys ks
AllocMembers(h, a, m, ks) ==
    IF ks = <<>> THEN h
    ELSE LET r == Alloc(h, m[Head(ks)])
         IN  AllocMembers([r.h EXCEPT ![a] = SetKey(@, Head(ks), r.v)], a, m, Tail(ks))

\* a JSON value built from fresh objects only: [h, v], the heap and the value
Alloc(h, v) ==
    IF v.t # "obj" THEN [h |-> h, v |-> v]
    ELSE LET a == Len(h) + 1
         IN  [h |-> AllocMembers(Append(h, EmptyMap), a, v.o, KeysInOrder(DOMAIN v.o, 1)),
              v |-> Ref(a)]

\* { ...prev }: a new root object whose members are those of prev
ShallowCloneDoc(h, prev) == [h |-> Append(h, h[prev.a]), v |-> Ref(Len(h) + 1)]

\* JSON.parse(JSON.stringify(prev)) as JsonObject
CloneDoc(h, prev) == Alloc(h, JsonParse(JsonStringify(Deref(h, prev))).v)

RECURSIVE WalkAndSetAlwaysFresh(_, _, _, _, _)
\* the loop of updateField putting a new object at every segment
WalkAndSetAlwaysFresh(h, current, path, i, value) ==
    IF i > Len(path) - 1
    THEN LET r == Alloc(h, value)
         IN  [r.h EXCEPT ![current] = SetKey(@, path[Len(path)], r.v)]
    ELSE LET h2 == [Append(h, EmptyMap) EXCEPT ![current] = SetKey(@, path[i], Ref(Len(h) + 1))]
         IN  WalkAndSetAlwaysFresh(h2, h2[current][path[i]].a, path, i + 1, value)

RECURSIVE WalkAndSet(_, _, _, _, _)
\* the loop of updateField from index i, then the assignment of the last segment
WalkAndSet(h, current, path, i, value) ==
    IF i > Len(path) - 1
    THEN LET r == Alloc(h, value)
         IN  [r.h EXCEPT ![current] = SetKey(@, path[Len(path)], r.v)]
    ELSE LET segment == GetKey(h[current], path[i])
             h2 == IF ~isJsonObject(segment)
                   THEN [Append(h, EmptyMap) EXCEPT ![current] = SetKey(@, path[i], Ref(Len(h) + 1))]
                   ELSE h
         IN  WalkAndSet(h2, h2[current][path[i]].a, path, i + 1, value)

\* The updater updateField hands to setConfigObj, run on the object prev that
\* React holds: [next, prev], the document it returns and the document prev
\* denotes once it has run.
UpdateFieldRun(prevDoc, path, value) ==
    LET p == Alloc(<<>>, prevDoc)
        c == CloneDoc(p.h, p.v)
        h == WalkAndSet(c.h, c.v.a, path, 1, value)
    IN  [next |-> Deref(h, c.v), prev |-> Deref(h, p.v)]

RECURSIVE GetAtPath(_, _, _)
\* doc[path[i]][path[i+1]]...: the value read at a path, or undefined
GetAtPath(v, path, i) ==
    IF i > Len(path) THEN v
    ELSE IF v.t # "obj" THEN Undef
    ELSE GetAtPath(GetKey(v.o, path[i]), path, i + 1)

(***************************************************************************)
(* Text typed into a control is a sequence of characters.                  *)
(***************************************************************************)
RECURSIVE Join(_)
\* the string of a character sequence
Join(cs) == IF cs = <<>> THEN "" ELSE Head(cs) \o Join(Tail(cs))

\* the value of a character as a digit of parseInt, -1 when it is none
DigitVal(c) ==
    CASE c = "0" -> 0 [] c = "1" -> 1 [] c = "2" -> 2 [] c = "3" -> 3 [] c = "4" -> 4
      [] c = "5" -> 5 [] c = "6" -> 6 [] c = "7" -> 7 [] c = "8" -> 8 [] c = "9" -> 9
      [] c \in {"a", "A"} -> 10 [] c \in {"b", "B"} -> 11 [] c \in {"c", "C"} -> 12
      [] c \in {"d", "D"} -> 13 [] c \in {"e", "E"} -> 14 [] c \in {"f", "F"} -> 15
      [] OTHER -> -1

RECURSIVE SkipSpace(_)
SkipSpace(cs) == IF cs # <<>> /\ Head(cs) = " " THEN SkipSpace(Tail(cs)) ELSE cs

RECURSIVE ParseDigits(_, _, _, _)
\* the digits of cs in the radix, accumulated: [nan, n]
ParseDigits(cs, radix, acc, seen) ==
    IF cs # <<>> /\ DigitVal(Head(cs)) >= 0 /\ DigitVal(Head(cs)) < radix
    THEN ParseDigits(Tail(cs), radix, acc * radix + DigitVal(Head(cs)), TRUE)
    ELSE [nan |-> ~seen, n |-> acc]

\* parseInt(val): [nan, n]
ParseInt(val) ==
    LET s0 == SkipSpace(val)
        neg == s0 # <<>> /\ Head(s0) = "-"
        s1 == IF s0 # <<>> /\ Head(s0) \in {"+", "-"} THEN Tail(s0) ELSE s0
        hex == Len(s1) >= 2 /\ s1[1] = "0" /\ s1[2] \in {"x", "X"}
        r == IF hex THEN ParseDigits(Tail(Tail(s1)), 16, 0, FALSE) ELSE ParseDigits(s1, 10, 0, FALSE)
    IN  [nan |-> r.nan, n |-> IF neg THEN 0 - r.n ELSE r.n]

\* parseInt(val), without the || val
IntOrNaN(val) == IF ParseInt(val).nan THEN [t |-> "nan"] ELSE Num(ParseInt(val).n)

\* parseInt(val) || val
IntOrText(val) ==
    LET r == ParseInt(val)
    IN  IF ~r.nan /\ r.n # 0 THEN Num(r.n) ELSE Str(Join(val))

(***************************************************************************)
(* The request gateway (lib/api-client).                                   *)
(***************************************************************************)
\* What a request can end in other than a 2xx response: a non-2xx response
\* with or without a detail in its body.  (fetch() rejecting throws an Error
\* with a message too, and is handled as the response with a detail is.)
FailedOutcomes ==
    { [kind |-> "http", status |-> 500, detail |-> Undef],
      [kind |-> "http", status |-> 422, detail |-> Str("Invalid JSON body")] }

\* The value apiFetch throws for a failed outcome: the Error built from a
\* non-2xx response, or the TypeError fetch() rejected with.
ApiFetchThrow(outcome) ==
    IF outcome.kind = "http"
    THEN [isError |-> TRUE,
          message |-> IF Truthy(outcome.detail) THEN outcome.detail.s
                      ELSE "Request failed (" \o ToString(outcome.status) \o ")",
          status |-> outcome.status]
    ELSE [isError |-> TRUE, message |-> "Failed to fetch", status |-> 0]

\* getErrorMessage(err, fallback)
getErrorMessage(err, fallback) == IF err.isError THEN err.message ELSE fallback

\* The letters, in the order of the alphabet.
LowerCase ==
    <<"a", "b", "c", "d", "e", "f", "g", "h", "i", "j", "k", "l", "m",
      "n", "o", "p", "q", "r", "s", "t", "u", "v", "w", "x", "y", "z">>

UpperCase ==
    <<"A", "B", "C", "D", "E", "F", "G", "H", "I", "J", "K", "L", "M",
      "N", "O", "P", "Q", "R", "S", "T", "U", "V", "W", "X", "Y", "Z">>

\* String.prototype.toUpperCase, on a sequence of characters
toUpperCase(cs) ==
    [i \in 1..Len(cs) |->
        IF \E j \in 1..26 : LowerCase[j] = cs[i]
        THEN UpperCase[CHOOSE j \in 1..26 : LowerCase[j] = cs[i]]
        ELSE cs[i]]

\* decodeURIComponent on a cookie value, a sequence of characters and
\* percent escapes: [ok |-> FALSE] is the URIError of a malformed escape.
decodeURIComponent(raw) ==
    LET dec(c) == CASE c = "%20" -> " " [] c = "%3D" -> "=" [] OTHER -> c
    IN  IF \E i \in 1..Len(raw) : raw[i] = "%"
        THEN [ok |-> FALSE]
        ELSE [ok |-> TRUE, s |-> Join([i \in 1..Len(raw) |-> dec(raw[i])])]

\* getCsrfToken(): '' without a document and unless "; " + document.cookie
\* splits in two at "; admin_csrf=", which it does when exactly one cookie
\* has that name; then the decoded value of that cookie.
getCsrfToken(doc) ==
    IF doc = Undef THEN [ok |-> TRUE, s |-> ""]
    ELSE LET named == SelectSeq(doc.cookie, LAMBDA c : c.name = "admin_csrf")
         IN  IF Len(named) = 1
             THEN decodeURIComponent(named[1].value)
             ELSE [ok |-> TRUE, s |-> ""]

\* { ...customHeaders }: the caller's headers, none when it gave none
SpreadHeaders(customHeaders) == IF customHeaders = Undef THEN EmptyMap ELSE customHeaders

\* headers[name] = value
SetHeader(headers, name, value) ==
    [k \in DOMAIN headers \cup {name} |-> IF k = name THEN value ELSE headers[k]]

\* A string held as the sequence of its characters.
Chars(cs) == [t |-> "chars", cs |-> cs]

\* rest.method || 'GET', as given
MethodAsGiven(options) ==
    IF options.method = Undef \/ options.method.cs = <<>>
    THEN <<"G", "E", "T">> ELSE options.method.cs

\* (rest.method || 'GET').toUpperCase()
MethodOf(options) ==
    toUpperCase(IF options.method = Undef \/ options.method.cs = <<>>
                THEN <<"G", "E", "T">> ELSE options.method.cs)

\* ['POST', 'PUT', 'PATCH', 'DELETE']
MutatingMethods ==
    { <<"P", "O", "S", "T">>, <<"P", "U", "T">>, <<"P", "A", "T", "C", "H">>,
      <<"D", "E", "L", "E", "T", "E">> }

\* The headers apiFetch builds, given the token getCsrfToken returned.
ApiFetchHeaders(options, token) ==
    LET headers == SpreadHeaders(options.headers)
    IN  IF MethodOf(options) \in MutatingMethods
        THEN LET withToken == SetHeader(headers, "X-CSRF-Token", token)
             IN  IF "Content-Type" \notin DOMAIN withToken \/ withToken["Content-Type"] = ""
                 THEN SetHeader(withToken, "Content-Type", "application/json")
                 ELSE withToken
        ELSE headers

\* The init apiFetch hands to fetch(): { ...rest, headers, credentials: 'include' }
ApiFetchInit(options, token) ==
    [method |-> options.method, body |-> options.body,
     headers |-> ApiFetchHeaders(options, token), credentials |-> Str("include")]

\* No TelegramConfigForm is mounted.
TelegramAbsent ==
    /\ formData = Null
    /\ tgLoading = FALSE
    /\ tgMessage = Null
    /\ tgReq = Null
    /\ tgLast = [op |-> "other"]

\* No dashboard page is shown.
DashboardAbsent ==
    /\ activeBrandId = 0
    /\ dbData = Null
    /\ dbLoading = FALSE
    /\ dbError = Null
    /\ pathname = ""
    /\ dbReqs = <<>>
    /\ children = Null
    /\ dbClicks = 0
    /\ dbLast = [op |-> "other"]

\* No apiFetch call is followed.
GatewayIdle ==
    /\ document = Undef
    /\ gwSent = Null
    /\ gwLast = [op |-> "other"]

(***************************************************************************)
(* AiProfileEditor                                                         *)
(***************************************************************************)
\* The tabs of the model: two of the structured tabs and the raw tab.
tabs == {"basics", "captions", "advanced"}

\* The structured controls of the model, each with the path its onChange
\* hands to updateField and the texts typed into it.
Fields ==
    { [tab |-> "basics", path |-> <<"language">>, kind |-> "text",
       inputs |-> {<<"f", "r">>}],
      [tab |-> "basics", path |-> <<"brand", "tagline">>, kind |-> "text",
       inputs |-> {<<"h", "i">>}],
      [tab |-> "captions", path |-> <<"caption_rules", "max_length">>, kind |-> "int",
       inputs |-> {<<"5">>, <<"a", "b", "c">>}] }

\* The value a control's onChange hands to updateField for the typed text.
FieldValue(f, val) == IF f.kind = "int" THEN IntOrText(val) ELSE Str(Join(val))

\* The top-level keys some structured control writes under.
StructuredRoots == {f.path[1] : f \in Fields}

\* The 2xx responses of GET /admin/api/brands/{id}/ai-config.
LoadResponses ==
    { [category |-> Str("fashion"),
       config |-> Obj([language |-> Str("en"), custom |-> Obj([a |-> Str("x")])])],
      [category |-> Undef,
       config |-> Obj([brand |-> Arr(<<Str("q")>>),
                       caption_rules |-> Obj([max_length |-> Num(5), a |-> Str("y")]),
                       custom |-> Str("x")])],
      [category |-> Undef, config |-> Undef],
      [category |-> Str(""), config |-> Arr(<<Str("q")>>)] }

\* The texts typed into the raw view's textarea.
RawTexts ==
    { <<P("{"), Str("language"), P(":"), Str("de"), P("}")>>,
      <<P("["), Str("q"), P("]")>>,
      <<Null>>,
      <<Str("x")>>,
      <<P("{"), Str("language")>> }

\* The stored document the server answers a PUT with, when it defaults a field.
ServerNormalized(doc) == Obj(SetKey(doc.o, "language", Str("en")))

\* The config fields of the 2xx responses to a PUT of payload: none, the
\* payload as stored, the payload normalized, a value that is no document.
SaveResponses(payload) == {Undef, payload, ServerNormalized(payload), Arr(<<>>)}

NoMessage == [text |-> "", type |-> "none"]
NoReq == [sent |-> FALSE]

\* The most user inputs (changes of a control or of the raw text, clicks on
\* the save button) in one run of the model.
MaxInputs == 3

\* No PostQueue is mounted.
QueueAbsent ==
    /\ posts = <<>>
    /\ qLoading = FALSE
    /\ qError = Null
    /\ actionError = Null
    /\ scheduleInput = EmptyMap
    /\ qReqs = <<>>
    /\ srvPosts = <<>>
    /\ host = [timeZone |-> Undef, offset |-> 0]
    /\ brandTz = "UTC"
    /\ qFetched = Undef
    /\ qCount = 0
    /\ qLast = [op |-> "other"]

EdInit ==
    /\ QueueAbsent
    /\ GatewayIdle
    /\ TelegramAbsent
    /\ DashboardAbsent
    /\ configObj = EmptyObj
    /\ rawConfig = <<>>
    /\ category = ""
    /\ loading = TRUE
    /\ saving = FALSE
    /\ message = NoMessage
    /\ activeTab = "basics"
    /\ loadReq = TRUE
    /\ saveReq = NoReq
    /\ timers = 0
    /\ edLast = [op |-> "other"]
    /\ edHist = [loaded |-> Undef, structOnly |-> FALSE, raw |-> "initial"]
    /\ edCount = 0

\* The editor's variables other than the document and the raw text, as they
\* are once a load has ended and before any input.
EdIdle ==
    /\ category = "general"
    /\ loading = FALSE
    /\ saving = FALSE
    /\ message = NoMessage
    /\ activeTab = "basics"
    /\ loadReq = FALSE
    /\ saveReq = NoReq
    /\ timers = 0
    /\ edLast = [op |-> "other"]
    /\ edCount = 0

\* the response's config taken as it comes
LoadedConfigAsIs(config) == config

\* The document fetchConfig takes from a 2xx response.
LoadedConfig(config) == IF isJsonObject(config) THEN config ELSE EmptyObj

\* fetchConfig, from the 2xx response on
FetchConfigOk(json) ==
    /\ loadReq
    /\ LET data == LoadedConfig(json.config)
       IN  /\ category' = IF Truthy(json.category) THEN json.category.s ELSE "general"
           /\ configObj' = data
           /\ rawConfig' = JsonStringify(data)
           /\ edHist' = [loaded |-> data, structOnly |-> TRUE, raw |-> "generated"]
    /\ loading' = FALSE
    /\ loadReq' = FALSE
    /\ edLast' = [op |-> "loaded", config |-> json.config]
    /\ UNCHANGED <<qVars, gwVars, tgVars, dbVars, saving, message, activeTab, saveReq, timers, edCount>>

\* the catch of fetchConfig emptying the document
FetchConfigFailClears(outcome) ==
    /\ loadReq
    /\ message' = [text |-> getErrorMessage(ApiFetchThrow(outcome), "Failed to fetch AI configuration"),
                   type |-> "error"]
    /\ configObj' = EmptyObj
    /\ rawConfig' = JsonStringify(EmptyObj)
    /\ loading' = FALSE
    /\ loadReq' = FALSE
    /\ edLast' = [op |-> "loadFailed", doc0 |-> configObj, raw0 |-> rawConfig]
    /\ UNCHANGED <<qVars, gwVars, tgVars, dbVars, category, saving, activeTab, saveReq, timers, edHist, edCount>>

\* fetchConfig, from apiFetch throwing on
FetchConfigFail(outcome) ==
    /\ loadReq
    /\ message' = [text |-> getErrorMessage(ApiFetchThrow(outcome), "Failed to fetch AI configuration"),
                   type |-> "error"]
    /\ loading' = FALSE
    /\ loadReq' = FALSE
    /\ edLast' = [op |-> "loadFailed", doc0 |-> configObj, raw0 |-> rawConfig]
    /\ UNCHANGED <<qVars, gwVars, tgVars, dbVars, configObj, rawConfig, category, saving, activeTab, saveReq, timers, edHist, edCount>>

\* onClick of a tab button
SetActiveTab(tab) ==
    /\ ~loading
    /\ activeTab' = tab
    /\ edLast' = [op |-> "other"]
    /\ UNCHANGED <<qVars, gwVars, tgVars, dbVars, configObj, rawConfig, category, loading, saving, message, loadReq, saveReq,
                   timers, edHist, edCount>>

\* updateField(path, value) making the raw text from the document it was called on
updateFieldStaleRaw(path, value) ==
    LET r == UpdateFieldRun(configObj, path, value)
    IN  /\ configObj' = r.next
        /\ rawConfig' = JsonStringify(configObj)

\* updateField(path, value): the new document and the raw text made from it
updateField(path, value) ==
    LET r == UpdateFieldRun(configObj, path, value)
    IN  /\ configObj' = r.next
        /\ rawConfig' = JsonStringify(r.next)

\* onChange of a control of the active tab, for the typed text val
ChangeField(f, val) ==
    /\ ~loading
    /\ activeTab = f.tab
    /\ edCount < MaxInputs
    /\ edCount' = edCount + 1
    /\ updateField(f.path, FieldValue(f, val))
    /\ edHist' = [edHist EXCEPT !.raw = "generated"]
    /\ edLast' = [op |-> "other"]
    \* an edit while a save is in flight is noted on the request
    /\ saveReq' = IF saveReq.sent THEN [saveReq EXCEPT !.touched = TRUE] ELSE saveReq
    /\ UNCHANGED <<qVars, gwVars, tgVars, dbVars, category, loading, saving, message, activeTab, loadReq, timers>>

\* onChange of the raw view's textarea
EditRaw(text) ==
    /\ ~loading
    /\ activeTab = "advanced"
    /\ edCount < MaxInputs
    /\ edCount' = edCount + 1
    /\ rawConfig' = text
    /\ edHist' = [edHist EXCEPT !.raw = "typed"]
    \* an edit while a save is in flight is noted on the request
    /\ saveReq' = IF saveReq.sent THEN [saveReq EXCEPT !.touched = TRUE] ELSE saveReq
    /\ edLast' = [op |-> "other"]
    /\ UNCHANGED <<qVars, gwVars, tgVars, dbVars, configObj, category, loading, saving, message, activeTab, loadReq, timers>>

\* The message handleSave's catch block sets for the thrown value.
SaveErrorMessage(err) ==
    LET rawMessage == getErrorMessage(err, "Failed to save configuration")
        \* rawMessage.includes('JSON'), over the messages of the model
        includesJSON == rawMessage \in {"Invalid JSON object", "Unexpected end of JSON input",
                                        "Invalid JSON body"}
    IN  [text |-> IF includesJSON
                  THEN "Invalid JSON format. Please check for syntax errors in Advanced mode."
                  ELSE rawMessage,
         type |-> "error"]

\* a payload built from the namespaces the structured tabs show
SavePayloadStructuredOnly(tab, doc, raw) ==
    [ok |-> TRUE, payload |-> Obj([k \in (DOMAIN doc.o) \cap StructuredRoots |-> doc.o[k]])]

\* the raw view's text sent as parsed, without the isJsonObject test
SavePayloadAnyParsed(tab, doc, raw) ==
    IF tab = "advanced"
    THEN LET parsed == JsonParse(raw)
         IN  IF ~parsed.ok
             THEN [ok |-> FALSE, err |-> [isError |-> TRUE, message |-> "Unexpected end of JSON input"]]
             ELSE [ok |-> TRUE, payload |-> parsed.v]
    ELSE [ok |-> TRUE, payload |-> doc]

\* the raw view's text sent from any tab when it parses to a document
SavePayloadRawFirst(tab, doc, raw) ==
    LET parsed == JsonParse(raw)
    IN  IF parsed.ok /\ isJsonObject(parsed.v) THEN [ok |-> TRUE, payload |-> parsed.v]
        ELSE IF tab # "advanced" THEN [ok |-> TRUE, payload |-> doc]
        ELSE [ok |-> FALSE, err |-> [isError |-> TRUE, message |-> "Invalid JSON object"]]

\* The try block of handleSave up to the request: [ok, payload], or the
\* Error thrown by JSON.parse or by the isJsonObject test.
SavePayload(tab, doc, raw) ==
    IF tab = "advanced"
    THEN LET parsed == JsonParse(raw)
         IN  IF ~parsed.ok
             THEN [ok |-> FALSE, err |-> [isError |-> TRUE, message |-> "Unexpected end of JSON input"]]
             ELSE IF ~isJsonObject(parsed.v)
             THEN [ok |-> FALSE, err |-> [isError |-> TRUE, message |-> "Invalid JSON object"]]
             ELSE [ok |-> TRUE, payload |-> parsed.v]
    ELSE [ok |-> TRUE, payload |-> doc]

\* handleSave behind a button that stays enabled while saving
HandleSaveWhileSaving ==
    /\ ~loading
    /\ edCount < MaxInputs
    /\ edCount' = edCount + 1
    /\ LET p == SavePayload(activeTab, configObj, rawConfig)
       IN  IF p.ok
           THEN /\ configObj' = IF activeTab = "advanced" THEN p.payload ELSE configObj
                /\ edHist' = IF activeTab = "advanced" THEN [edHist EXCEPT !.structOnly = FALSE]
                             ELSE edHist
                /\ saveReq' = [sent |-> TRUE, body |-> JsonStringify(Obj([config |-> p.payload])),
                               tab |-> activeTab, doc0 |-> configObj, raw0 |-> rawConfig,
                               touched |-> FALSE]
                /\ saving' = TRUE
                /\ message' = NoMessage
           ELSE /\ message' = SaveErrorMessage(p.err)
                /\ saving' = FALSE
                /\ UNCHANGED <<configObj, edHist, saveReq>>
    /\ edLast' = [op |-> "save", tab |-> activeTab, doc0 |-> configObj, raw0 |-> rawConfig]
    /\ UNCHANGED <<qVars, gwVars, tgVars, dbVars, rawConfig, category, loading, activeTab, loadReq, timers>>

\* handleSave, from the click on the save button to the request or to the
\* error thrown before it
HandleSave ==
    /\ ~loading
    /\ ~saving
    /\ edCount < MaxInputs
    /\ edCount' = edCount + 1
    /\ LET p == SavePayload(activeTab, configObj, rawConfig)
       IN  IF p.ok
           THEN /\ configObj' = IF activeTab = "advanced" THEN p.payload ELSE configObj
                /\ edHist' = IF activeTab = "advanced" THEN [edHist EXCEPT !.structOnly = FALSE]
                             ELSE edHist
                /\ saveReq' = [sent |-> TRUE, body |-> JsonStringify(Obj([config |-> p.payload])),
                               tab |-> activeTab, doc0 |-> configObj, raw0 |-> rawConfig,
                               touched |-> FALSE]
                /\ saving' = TRUE
                /\ message' = NoMessage
           ELSE /\ message' = SaveErrorMessage(p.err)
                /\ saving' = FALSE
                /\ UNCHANGED <<configObj, edHist, saveReq>>
    /\ edLast' = [op |-> "save", tab |-> activeTab, doc0 |-> configObj, raw0 |-> rawConfig]
    /\ UNCHANGED <<qVars, gwVars, tgVars, dbVars, rawConfig, category, loading, activeTab, loadReq, timers>>

\* the ternary's branches exchanged
ReturnedConfigInverted(config) == IF isJsonObject(config) THEN EmptyObj ELSE config

\* The document handleSave takes from a 2xx response with a config.
ReturnedConfig(config) == IF isJsonObject(config) THEN config ELSE EmptyObj

\* The config the request in flight carries: the body, read as the server does.
SentConfig == JsonParse(saveReq.body).v.o["config"]

\* handleSave, from the 2xx response on, without the setRawConfig
HandleSaveOkKeepsRaw ==
    /\ saveReq.sent
    /\ \E config \in SaveResponses(SentConfig) :
        /\ IF Truthy(config)
           THEN /\ configObj' = ReturnedConfig(config)
                /\ edHist' = [edHist EXCEPT !.structOnly = FALSE, !.raw = "generated"]
                /\ UNCHANGED rawConfig
           ELSE UNCHANGED <<configObj, rawConfig, edHist>>
        /\ edLast' = [op |-> "saveOk", config |-> config, touched |-> saveReq.touched]
    /\ message' = [text |-> "AI Profile configuration saved successfully.", type |-> "success"]
    /\ timers' = timers + 1
    /\ saving' = FALSE
    /\ saveReq' = NoReq
    /\ UNCHANGED <<qVars, gwVars, tgVars, dbVars, category, loading, activeTab, loadReq, edCount>>

\* handleSave, from the 2xx response to the PUT on
HandleSaveOk ==
    /\ saveReq.sent
    /\ \E config \in SaveResponses(SentConfig) :
        /\ IF Truthy(config)
           THEN /\ configObj' = ReturnedConfig(config)
                /\ rawConfig' = JsonStringify(ReturnedConfig(config))
                /\ edHist' = [edHist EXCEPT !.structOnly = FALSE, !.raw = "generated"]
           ELSE UNCHANGED <<configObj, rawConfig, edHist>>
        /\ edLast' = [op |-> "saveOk", config |-> config, touched |-> saveReq.touched]
    /\ message' = [text |-> "AI Profile configuration saved successfully.", type |-> "success"]
    /\ timers' = timers + 1
    /\ saving' = FALSE
    /\ saveReq' = NoReq
    /\ UNCHANGED <<qVars, gwVars, tgVars, dbVars, category, loading, activeTab, loadReq, edCount>>

\* handleSave, from apiFetch throwing on
HandleSaveFail(outcome) ==
    /\ saveReq.sent
    /\ message' = SaveErrorMessage(ApiFetchThrow(outcome))
    /\ saving' = FALSE
    /\ saveReq' = NoReq
    /\ edLast' = [op |-> "other"]
    /\ UNCHANGED <<qVars, gwVars, tgVars, dbVars, configObj, rawConfig, category, loading, activeTab, loadReq, timers, edHist,
                   edCount>>

\* the callback of setTimeout(() => setMessage(null), 3000)
MessageTimeout ==
    /\ timers > 0
    /\ message' = NoMessage
    /\ timers' = timers - 1
    /\ edLast' = [op |-> "other"]
    /\ UNCHANGED <<qVars, gwVars, tgVars, dbVars, configObj, rawConfig, category, loading, saving, activeTab, loadReq, saveReq,
                   edHist, edCount>>

EdNext ==
    \/ \E json \in LoadResponses : FetchConfigOk(json)
    \/ \E outcome \in FailedOutcomes : FetchConfigFail(outcome)
    \/ \E tab \in tabs : SetActiveTab(tab)
    \/ \E f \in Fields : \E val \in f.inputs : ChangeField(f, val)
    \/ \E text \in RawTexts : EditRaw(text)
    \/ HandleSave
    \/ HandleSaveOk
    \/ \E outcome \in FailedOutcomes : HandleSaveFail(outcome)
    \/ MessageTimeout

SpecEditor == EdInit /\ [][EdNext]_vars

(***************************************************************************)
(* updateField as a function of the document, the path and the value:      *)
(* SpecUpdateField starts from a loaded document and applies updateField   *)
(* to paths and values of every shape.                                     *)
(***************************************************************************)
\* The most updateField calls in one run of SpecUpdateField.
MaxSets == 2

\* Loaded documents: empty, nested, and with an array, a scalar or null
\* where a path of UfPaths descends.
UfDocs ==
    { EmptyObj,
      Obj([language |-> Str("en"), custom |-> Obj([a |-> Str("x")])]),
      Obj([brand |-> Arr(<<Str("q")>>),
           caption_rules |-> Obj([max_length |-> Num(5), a |-> Str("y")])]),
      Obj([brand |-> Obj([tagline |-> Obj([a |-> Str("deep")]), a |-> Null]),
           caption_rules |-> Null]),
      Obj([brand |-> Str("scalar"), custom |-> Obj([a |-> Obj([a |-> Num(0)])])]) }

UfPaths ==
    { <<"language">>, <<"brand", "tagline">>, <<"caption_rules", "max_length">>,
      <<"brand", "tagline", "a">>, <<"custom", "a">> }

\* A string, an integer, a string array and a string dictionary.
UfValues == { Str("hi"), Num(7), Arr(<<Str("q"), Str("r")>>), Obj([a |-> Str("z")]) }

UfInit ==
    /\ QueueAbsent
    /\ GatewayIdle
    /\ TelegramAbsent
    /\ DashboardAbsent
    /\ configObj \in UfDocs
    /\ rawConfig = JsonStringify(configObj)
    /\ edHist = [loaded |-> configObj, structOnly |-> TRUE, raw |-> "generated"]
    /\ EdIdle

\* updateField(path, value), with what it was called on and what became of
\* the document it was handed
SetAtPath(path, value) ==
    /\ edCount < MaxSets
    /\ edCount' = edCount + 1
    /\ updateField(path, value)
    /\ edLast' = [op |-> "set", path |-> path, value |-> value, before |-> configObj,
                  prevAfter |-> UpdateFieldRun(configObj, path, value).prev]
    /\ UNCHANGED <<qVars, gwVars, tgVars, dbVars, category, loading, saving, message, activeTab, loadReq, saveReq, timers, edHist>>

UfNext == \E path \in UfPaths : \E value \in UfValues : SetAtPath(path, value)

SpecUpdateField == UfInit /\ [][UfNext]_vars

(***************************************************************************)
(* The controls that parse their text: ArrayInput, DictInput and the       *)
(* numeric-looking text inputs.  SpecFields starts from a loaded document  *)
(* and applies one onChange of such a control, for every text of a bounded *)
(* length over the characters that matter to the control, and for the      *)
(* longer texts of FdExamples.                                             *)
(***************************************************************************)
\* The longest text enumerated over an alphabet.
MaxText == 4

\* a character String.prototype.trim removes
IsSpace(c) == c \in {" ", "\t", "\n", "\r"}

RECURSIVE trimStart(_)
trimStart(cs) == IF cs # <<>> /\ IsSpace(Head(cs)) THEN trimStart(Tail(cs)) ELSE cs

RECURSIVE trimEnd(_)
trimEnd(cs) ==
    IF cs # <<>> /\ IsSpace(cs[Len(cs)]) THEN trimEnd(SubSeq(cs, 1, Len(cs) - 1)) ELSE cs

\* String.prototype.trim
trim(cs) == trimEnd(trimStart(cs))

RECURSIVE split(_, _)
\* String.prototype.split(sep), sep one character: the pieces, in order
split(cs, sep) ==
    IF cs = <<>> THEN << <<>> >>
    ELSE LET rest == split(Tail(cs), sep)
         IN  IF Head(cs) = sep THEN << <<>> >> \o rest
             ELSE << <<Head(cs)>> \o Head(rest) >> \o Tail(rest)

RECURSIVE indexOf(_, _)
\* String.prototype.indexOf(c), counted from 1: 0 when c does not occur
indexOf(cs, c) ==
    IF cs = <<>> THEN 0
    ELSE IF Head(cs) = c THEN 1
    ELSE LET r == indexOf(Tail(cs), c) IN IF r = 0 THEN 0 ELSE r + 1

\* val.split(',').map(s => s.trim()), without the filter
ArrayInputKeepEmpty(val) ==
    LET pieces == split(val, ",")
    IN  Arr([j \in 1..Len(pieces) |-> Str(Join(trim(pieces[j])))])

\* val.split(',').map(s => s.trim()).filter(Boolean), handed to onChange
ArrayInputHandleChange(val) ==
    LET pieces == split(val, ",")
        trimmed == [j \in 1..Len(pieces) |-> trim(pieces[j])]
        kept == SelectSeq(trimmed, LAMBDA s : s # <<>>)
    IN  Arr([j \in 1..Len(kept) |-> Str(Join(kept[j]))])

RECURSIVE DictInputLines(_, _, _)
\* lines.forEach(...) of DictInput: obj after the lines from the j-th on
DictInputLines(lines, j, obj) ==
    IF j > Len(lines) THEN obj
    ELSE LET line == lines[j]
             idx == indexOf(line, ":")
             k == trim(SubSeq(line, 1, idx - 1))
             v == trim(SubSeq(line, idx + 1, Len(line)))
         IN  DictInputLines(lines, j + 1,
                 IF idx > 0 /\ k # <<>> /\ v # <<>> THEN SetKey(obj, Join(k), Str(Join(v)))
                 ELSE obj)

\* the lines taken from the last to the first
DictInputFirstWins(val) ==
    LET lines == split(val, "\n")
    IN  Obj(DictInputLines([j \in 1..Len(lines) |-> lines[Len(lines) + 1 - j]], 1, EmptyMap))

\* The object DictInput's handleChange hands to onChange.
DictInputHandleChange(val) == Obj(DictInputLines(split(val, "\n"), 1, EmptyMap))

\* the texts of at most n characters of the alphabet
Texts(alphabet, n) == UNION {[1..k -> alphabet] : k \in 0..n}

\* "a, b ,, c" and "x: 1\ny:2\nbadline\nx: 3", and texts with a second
\* colon, a key of two words, a lone zero in hexadecimal and a tab
FdExamples ==
    [array |-> { <<"a", ",", " ", "b", " ", ",", ",", " ", "c">>,
                 <<"b", ",", "a", " ", "a", ",", "\t", "b", "\n", ",", "a", " ", "a">> },
     dict |-> { <<"x", ":", " ", "1", "\n", "y", ":", "2", "\n", "b", "a", "d", "l", "i", "n", "e",
                  "\n", "x", ":", " ", "3">>,
                <<"x", " ", "y", ":", "1", ":", "2", "\n", " ", ":", "3", "\n", "z", ":", " ">> },
     int |-> { <<"0", "x", "1", "f">>, <<"1", "2", "a", "b", "c">>, <<"2", "8", "0">> }]

\* The controls of the model: a string-array control, a string-dictionary
\* control and the two numeric-looking controls, with the texts typed.
FdControls ==
    { [path |-> <<"caption_rules", "must_mention">>, kind |-> "array",
       inputs |-> Texts({"a", "b", ",", " "}, MaxText) \cup FdExamples.array],
      [path |-> <<"display_styles">>, kind |-> "dict",
       inputs |-> Texts({"x", ":", "\n", " "}, MaxText) \cup FdExamples.dict],
      [path |-> <<"caption_rules", "max_length">>, kind |-> "int",
       inputs |-> FdExamples.int],
      [path |-> <<"caption_rules", "emoji_limit">>, kind |-> "int",
       inputs |-> Texts({"0", "1", "-", " ", "a"}, MaxText)] }

\* The value the control's onChange hands to updateField for the typed text.
ControlValue(c, val) ==
    CASE c.kind = "array" -> ArrayInputHandleChange(val)
      [] c.kind = "dict" -> DictInputHandleChange(val)
      [] c.kind = "int" -> IntOrText(val)

\* Loaded documents: empty, and with the namespaces the controls write to.
FdDocs ==
    { EmptyObj,
      Obj([caption_rules |-> Obj([max_length |-> Num(5), must_mention |-> Arr(<<Str("q")>>)]),
           display_styles |-> Obj([x |-> Str("old"), a |-> Str("y")]),
           custom |-> Str("x")]) }

FdInit ==
    /\ QueueAbsent
    /\ GatewayIdle
    /\ TelegramAbsent
    /\ DashboardAbsent
    /\ configObj \in FdDocs
    /\ rawConfig = JsonStringify(configObj)
    /\ edHist = [loaded |-> configObj, structOnly |-> TRUE, raw |-> "generated"]
    /\ EdIdle

\* onChange of a parsing control for the typed text val, on the loaded
\* document
TypeInControl(c, val) ==
    /\ edLast.op = "other"
    /\ updateField(c.path, ControlValue(c, val))
    /\ edLast' = [op |-> "typed", kind |-> c.kind, path |-> c.path, val |-> val]
    /\ UNCHANGED <<qVars, gwVars, tgVars, dbVars, category, loading, saving, message, activeTab, loadReq, saveReq, timers,
                   edHist, edCount>>

FdNext == \E c \in FdControls : \E val \in c.inputs : TypeInControl(c, val)

SpecFields == FdInit /\ [][FdNext]_vars

(***************************************************************************)
(* PostQueue                                                               *)
(***************************************************************************)
\* The most user inputs (clicks on Refresh, Publish now and Schedule, changes
\* of a date-time input) in one run of the queue.
MaxClicks == 3

\* The most requests of the queue in flight at once.
MaxInFlight == 2

\* No AiProfileEditor is mounted.
EditorAbsent ==
    /\ configObj = EmptyObj
    /\ rawConfig = <<>>
    /\ edHist = [loaded |-> Undef, structOnly |-> FALSE, raw |-> "initial"]
    /\ EdIdle

\* a PostRow: its id and its status (the fields the controls depend on)
PostRow(id, st) == [id |-> id, status |-> st]

\* The post lists of a brand on the server when the queue is mounted.
QueueLists ==
    { <<PostRow(1, Str("review_ready")), PostRow(2, Str("SCHEDULED"))>>,
      <<PostRow(1, Str("Approved")), PostRow(2, Str("posted"))>>,
      <<PostRow(1, Null), PostRow(2, Str("failed"))>> }

\* The UTC offset, in minutes, of a time zone on 2024-06-01.
UtcOffset(zone) ==
    CASE zone = "Europe/Berlin" -> 120
      [] zone = "America/New_York" -> 0 - 240
      [] zone = "Asia/Kolkata" -> 330
      [] OTHER -> 0

\* The browsers of the model: what Intl resolves as the time zone, and the
\* offset of their local time; one resolves no time zone.
Hosts ==
    { [timeZone |-> Str("Europe/Berlin"), offset |-> UtcOffset("Europe/Berlin")],
      [timeZone |-> Str("America/New_York"), offset |-> UtcOffset("America/New_York")],
      [timeZone |-> Undef, offset |-> 60] }

\* Brand.timezone of the brands of the model
BrandZones == {"America/New_York", "Asia/Kolkata"}

\* The values of a datetime-local input: empty, or a local date and time.
ScheduleTexts == {"", "2024-06-01T10:00", "2024-06-01T00:30"}

\* The local wall-clock time a datetime-local value names, in minutes after
\* 2024-06-01T00:00.
LocalMinutes(rawValue) ==
    CASE rawValue = "2024-06-01T10:00" -> 600
      [] rawValue = "2024-06-01T00:30" -> 30

\* Date.prototype.toISOString: the text of an instant, the instant counted
\* in minutes after 2024-06-01T00:00Z.
toISOString(instant) == Str("2024-06-01T00:00Z" \o ToString(instant))

\* String.prototype.toLowerCase, over the statuses of the model
toLowerCase(s) ==
    CASE s = "SCHEDULED" -> "scheduled"
      [] s = "Approved" -> "approved"
      [] OTHER -> s

\* (post.status || '').toLowerCase()
status(post) == IF Truthy(post.status) THEN toLowerCase(post.status.s) ELSE ""

canPublish(post) == status(post) \in {"review_ready", "approved", "scheduled"}

\* canSchedule with the list of canPublish
canScheduleAlsoScheduled(post) == status(post) \in {"review_ready", "approved", "scheduled"}

canSchedule(post) == status(post) \in {"review_ready", "approved"}

\* The action controls rendered in the row of a post.
Controls(post) ==
    (IF canPublish(post) THEN {"publish"} ELSE {})
        \cup (IF canSchedule(post) THEN {"schedule"} ELSE {})

\* Intl.DateTimeFormat().resolvedOptions().timeZone || 'UTC'
timezone == IF Truthy(host.timeZone) THEN host.timeZone.s ELSE "UTC"

\* the value read as a time of the brand's zone
asIsoInBrandZone(rawValue) == toISOString(LocalMinutes(rawValue) - UtcOffset(brandTz))

\* new Date(rawValue).toISOString(): the value read as local time
asIso(rawValue) == toISOString(LocalMinutes(rawValue) - host.offset)

\* A request handed to apiFetch: for an action the row it was clicked in
\* and the value of its input; st and resp are the server's answer.
NewReq(kind, row, body, typed) ==
    [kind |-> kind, row |-> row, body |-> body, typed |-> typed, st |-> "sent", resp |-> Undef]

RemoveAt(s, i) == SubSeq(s, 1, i - 1) \o SubSeq(s, i + 1, Len(s))

\* The table of posts and the Refresh button are rendered.
Rendered == ~qLoading /\ qError = Null

QInit ==
    /\ EditorAbsent
    /\ GatewayIdle
    /\ TelegramAbsent
    /\ DashboardAbsent
    /\ srvPosts \in QueueLists
    /\ host \in Hosts
    /\ brandTz \in BrandZones
    /\ posts = <<>>
    /\ qLoading = TRUE
    /\ qError = Null
    /\ actionError = Null
    /\ scheduleInput = EmptyMap
    /\ qReqs = <<NewReq("fetch", Undef, <<>>, Undef)>>
    /\ qFetched = Undef
    /\ qCount = 0
    /\ qLast = [op |-> "other"]

\* The server answers request i with a non-2xx response.
ServerFails(i, outcome) ==
    /\ qReqs[i].st = "sent"
    /\ qReqs' = [qReqs EXCEPT ![i].st = "fail", ![i].resp = outcome]
    /\ qLast' = [op |-> "other"]
    /\ UNCHANGED <<edVars, gwVars, tgVars, dbVars, qCount, posts, qLoading, qError, actionError, scheduleInput, srvPosts, host,
                   brandTz, qFetched>>

\* The 2xx responses to GET .../posts: the posts of the brand, or no posts.
FetchResponses == { [posts |-> Arr(srvPosts)], [posts |-> Undef] }

\* the server's posts with the status of post id set
SetStatus(list, id, st) ==
    [k \in 1..Len(list) |-> IF list[k].id = id THEN PostRow(id, st) ELSE list[k]]

\* The server answers request i with a 2xx response: the list as it is, or
\* the post published or scheduled.
ServerOk(i) ==
    /\ qReqs[i].st = "sent"
    /\ \/ /\ qReqs[i].kind = "fetch"
          /\ \E json \in FetchResponses :
                qReqs' = [qReqs EXCEPT ![i].st = "ok", ![i].resp = json]
          /\ UNCHANGED srvPosts
       \/ /\ qReqs[i].kind = "publish"
          /\ qReqs' = [qReqs EXCEPT ![i].st = "ok"]
          /\ srvPosts' = SetStatus(srvPosts, qReqs[i].row.id, Str("posted"))
       \/ /\ qReqs[i].kind = "schedule"
          /\ qReqs' = [qReqs EXCEPT ![i].st = "ok"]
          /\ srvPosts' = SetStatus(srvPosts, qReqs[i].row.id, Str("scheduled"))
    /\ qLast' = [op |-> "other"]
    /\ UNCHANGED <<edVars, gwVars, tgVars, dbVars, qCount, posts, qLoading, qError, actionError, scheduleInput, host, brandTz,
                   qFetched>>

\* fetchPosts up to its await, the other requests in flight being reqs
fetchPosts(reqs) ==
    /\ qLoading' = TRUE
    /\ qError' = Null
    /\ qReqs' = Append(reqs, NewReq("fetch", Undef, <<>>, Undef))

\* A click on Refresh.
Refresh ==
    /\ Rendered
    /\ qCount < MaxClicks
    /\ Len(qReqs) < MaxInFlight
    /\ qCount' = qCount + 1
    /\ fetchPosts(qReqs)
    /\ qLast' = [op |-> "other"]
    /\ UNCHANGED <<edVars, gwVars, tgVars, dbVars, posts, actionError, scheduleInput, srvPosts, host, brandTz, qFetched>>

\* fetchPosts after its await, the request answered 2xx
FetchPostsOk(i) ==
    /\ qReqs[i].kind = "fetch"
    /\ qReqs[i].st = "ok"
    /\ posts' = IF Truthy(qReqs[i].resp.posts) THEN qReqs[i].resp.posts.e ELSE <<>>
    /\ qLoading' = FALSE
    /\ qReqs' = RemoveAt(qReqs, i)
    /\ qFetched' = qReqs[i].resp
    /\ qLast' = [op |-> "other"]
    /\ UNCHANGED <<edVars, gwVars, tgVars, dbVars, qCount, qError, actionError, scheduleInput, srvPosts, host, brandTz>>

\* fetchPosts after its await, the request failed
FetchPostsFail(i) ==
    /\ qReqs[i].kind = "fetch"
    /\ qReqs[i].st = "fail"
    /\ qError' = Str(getErrorMessage(ApiFetchThrow(qReqs[i].resp), "Failed to fetch posts"))
    /\ qLoading' = FALSE
    /\ qReqs' = RemoveAt(qReqs, i)
    /\ qLast' = [op |-> "other"]
    /\ UNCHANGED <<edVars, gwVars, tgVars, dbVars, qCount, posts, actionError, scheduleInput, srvPosts, host, brandTz, qFetched>>

\* handlePublish(posts[k].id) up to its await: a click on Publish now
HandlePublish(k) ==
    /\ Rendered
    /\ "publish" \in Controls(posts[k])
    /\ qCount < MaxClicks
    /\ Len(qReqs) < MaxInFlight
    /\ qCount' = qCount + 1
    /\ actionError' = Null
    /\ qReqs' = Append(qReqs, NewReq("publish", posts[k], JsonStringify(EmptyObj), Undef))
    /\ qLast' = [op |-> "other"]
    /\ UNCHANGED <<edVars, gwVars, tgVars, dbVars, posts, qLoading, qError, scheduleInput, srvPosts, host, brandTz, qFetched>>

\* handlePublish after its await, showing the post as posted before the reload
HandlePublishOkOptimistic(i) ==
    /\ qReqs[i].kind = "publish"
    /\ qReqs[i].st = "ok"
    /\ posts' = SetStatus(posts, qReqs[i].row.id, Str("posted"))
    /\ fetchPosts(RemoveAt(qReqs, i))
    /\ qLast' = [op |-> "other"]
    /\ UNCHANGED <<edVars, gwVars, tgVars, dbVars, qCount, actionError, scheduleInput, srvPosts, host, brandTz, qFetched>>

\* handlePublish after its await, the request answered 2xx
HandlePublishOk(i) ==
    /\ qReqs[i].kind = "publish"
    /\ qReqs[i].st = "ok"
    /\ fetchPosts(RemoveAt(qReqs, i))
    /\ qLast' = [op |-> "other"]
    /\ UNCHANGED <<edVars, gwVars, tgVars, dbVars, qCount, posts, actionError, scheduleInput, srvPosts, host, brandTz, qFetched>>

\* the fallback message of an action
Fallback(kind) == IF kind = "publish" THEN "Failed to publish" ELSE "Failed to schedule"

\* the catch of an action followed by fetchPosts()
HandleActionFailReloads(i) ==
    /\ qReqs[i].kind \in {"publish", "schedule"}
    /\ qReqs[i].st = "fail"
    /\ actionError' = Str(getErrorMessage(ApiFetchThrow(qReqs[i].resp), Fallback(qReqs[i].kind)))
    /\ fetchPosts(RemoveAt(qReqs, i))
    /\ qLast' = [op |-> "actionFail", kind |-> qReqs[i].kind, row |-> qReqs[i].row.id,
                 outcome |-> qReqs[i].resp, posts0 |-> posts, reqs0 |-> RemoveAt(qReqs, i)]
    /\ UNCHANGED <<edVars, gwVars, tgVars, dbVars, qCount, posts, scheduleInput, srvPosts, host, brandTz, qFetched>>

\* the catch of an action sending the request again
HandleActionFailRetries(i) ==
    /\ qReqs[i].kind \in {"publish", "schedule"}
    /\ qReqs[i].st = "fail"
    /\ actionError' = Str(getErrorMessage(ApiFetchThrow(qReqs[i].resp), Fallback(qReqs[i].kind)))
    /\ qReqs' = Append(RemoveAt(qReqs, i),
                       NewReq(qReqs[i].kind, qReqs[i].row, qReqs[i].body, qReqs[i].typed))
    /\ qLast' = [op |-> "actionFail", kind |-> qReqs[i].kind, row |-> qReqs[i].row.id,
                 outcome |-> qReqs[i].resp, posts0 |-> posts, reqs0 |-> RemoveAt(qReqs, i)]
    /\ UNCHANGED <<edVars, gwVars, tgVars, dbVars, qCount, posts, qLoading, qError, scheduleInput, srvPosts, host, brandTz, qFetched>>

\* handlePublish and handleSchedule after their await, the request failed
HandleActionFail(i) ==
    /\ qReqs[i].kind \in {"publish", "schedule"}
    /\ qReqs[i].st = "fail"
    /\ actionError' = Str(getErrorMessage(ApiFetchThrow(qReqs[i].resp), Fallback(qReqs[i].kind)))
    /\ qReqs' = RemoveAt(qReqs, i)
    /\ qLast' = [op |-> "actionFail", kind |-> qReqs[i].kind, row |-> qReqs[i].row.id,
                 outcome |-> qReqs[i].resp, posts0 |-> posts, reqs0 |-> RemoveAt(qReqs, i)]
    /\ UNCHANGED <<edVars, gwVars, tgVars, dbVars, qCount, posts, qLoading, qError, scheduleInput, srvPosts, host, brandTz, qFetched>>

\* The onChange of the datetime-local input in the row of posts[k]: the
\* text becomes another one.
SetScheduleInput(k, text) ==
    /\ Rendered
    /\ "schedule" \in Controls(posts[k])
    \* value={scheduleInput[post.id] || ''}: the text the input of the row shows
    /\ text # (IF Truthy(GetKey(scheduleInput, posts[k].id))
               THEN GetKey(scheduleInput, posts[k].id).s ELSE "")
    /\ qCount < MaxClicks
    /\ qCount' = qCount + 1
    /\ scheduleInput' = SetKey(scheduleInput, posts[k].id, Str(text))
    /\ qLast' = [op |-> "other"]
    /\ UNCHANGED <<edVars, gwVars, tgVars, dbVars, posts, qLoading, qError, actionError, qReqs, srvPosts, host, brandTz,
                   qFetched>>

\* handleSchedule without the test of rawValue
HandleScheduleUnchecked(k) ==
    LET rawValue == GetKey(scheduleInput, posts[k].id)
        asText == IF Truthy(rawValue) THEN asIso(rawValue.s) ELSE Null
    IN  /\ Rendered
        /\ "schedule" \in Controls(posts[k])
        /\ qCount < MaxClicks
        /\ Len(qReqs) < MaxInFlight
        /\ qCount' = qCount + 1
        /\ actionError' = Null
        /\ qReqs' = Append(qReqs, NewReq("schedule", posts[k],
                        JsonStringify(Obj([scheduled_for |-> asText,
                                           scheduled_timezone |-> Str(timezone)])), rawValue))
        /\ qLast' = [op |-> "schedule", rawValue |-> rawValue, posts0 |-> posts, reqs0 |-> qReqs]
        /\ UNCHANGED <<edVars, gwVars, tgVars, dbVars, posts, qLoading, qError, scheduleInput, srvPosts, host, brandTz,
                       qFetched>>

\* handleSchedule(posts[k].id) up to its return or its await: a click on
\* Schedule
HandleSchedule(k) ==
    LET rawValue == GetKey(scheduleInput, posts[k].id)
    IN  /\ Rendered
        /\ "schedule" \in Controls(posts[k])
        /\ qCount < MaxClicks
        /\ Len(qReqs) < MaxInFlight
        /\ qCount' = qCount + 1
        /\ IF ~Truthy(rawValue)
           THEN /\ actionError' = Str("Pick a date/time first.")
                /\ UNCHANGED qReqs
           ELSE /\ actionError' = Null
                /\ qReqs' = Append(qReqs, NewReq("schedule", posts[k],
                                JsonStringify(Obj([scheduled_for |-> asIso(rawValue.s),
                                                   scheduled_timezone |-> Str(timezone)])),
                                rawValue))
        /\ qLast' = [op |-> "schedule", rawValue |-> rawValue, posts0 |-> posts, reqs0 |-> qReqs]
        /\ UNCHANGED <<edVars, gwVars, tgVars, dbVars, posts, qLoading, qError, scheduleInput, srvPosts, host, brandTz,
                       qFetched>>

\* handleSchedule after its await, without the fetchPosts()
HandleScheduleOkNoReload(i) ==
    /\ qReqs[i].kind = "schedule"
    /\ qReqs[i].st = "ok"
    /\ qReqs' = RemoveAt(qReqs, i)
    /\ qLast' = [op |-> "other"]
    /\ UNCHANGED <<edVars, gwVars, tgVars, dbVars, qCount, posts, qLoading, qError, actionError, scheduleInput, srvPosts, host,
                   brandTz, qFetched>>

\* handleSchedule after its await, the request answered 2xx
HandleScheduleOk(i) ==
    /\ qReqs[i].kind = "schedule"
    /\ qReqs[i].st = "ok"
    /\ fetchPosts(RemoveAt(qReqs, i))
    /\ qLast' = [op |-> "other"]
    /\ UNCHANGED <<edVars, gwVars, tgVars, dbVars, qCount, posts, actionError, scheduleInput, srvPosts, host, brandTz, qFetched>>

QNext ==
    \/ \E i \in 1..Len(qReqs) : \E outcome \in FailedOutcomes : ServerFails(i, outcome)
    \/ \E i \in 1..Len(qReqs) : ServerOk(i)
    \/ \E i \in 1..Len(qReqs) : FetchPostsOk(i)
    \/ \E i \in 1..Len(qReqs) : FetchPostsFail(i)
    \/ \E i \in 1..Len(qReqs) : HandlePublishOk(i)
    \/ \E i \in 1..Len(qReqs) : HandleScheduleOk(i)
    \/ \E i \in 1..Len(qReqs) : HandleActionFail(i)
    \/ Refresh
    \/ \E k \in 1..Len(posts) : HandlePublish(k)
    \/ \E k \in 1..Len(posts) : HandleSchedule(k)
    \/ \E k \in 1..Len(posts) : \E text \in ScheduleTexts : SetScheduleInput(k, text)

SpecQueue == QInit /\ [][QNext]_vars

(***************************************************************************)
(* SpecGateway follows the calls of apiFetch up to the request it hands    *)
(* to fetch(), for the options a caller can pass and the cookies the page  *)
(* can hold.                                                               *)
(***************************************************************************)
\* What document.cookie can list (a cookie: a name and a value).
Documents ==
    { Undef,
      [cookie |-> <<>>],
      [cookie |-> <<[name |-> "admin_csrf", value |-> <<"t", "0", "k">>]>>],
      [cookie |-> <<[name |-> "theme", value |-> <<"d">>],
                    [name |-> "admin_csrf", value |-> <<"a", "%3D", "b">>]>>],
      [cookie |-> <<[name |-> "admin_csrf", value |-> <<"t", "%">>]>>],
      [cookie |-> <<[name |-> "admin_csrf", value |-> <<"t", "1">>],
                    [name |-> "admin_csrf", value |-> <<"t", "2">>]>>] }

\* RequestInit.method as callers write it; Undef: not given.
Methods ==
    { Undef, Chars(<<>>), Chars(<<"G", "E", "T">>), Chars(<<"g", "e", "t">>), Chars(<<"H", "E", "A", "D">>),
      Chars(<<"P", "O", "S", "T">>), Chars(<<"p", "o", "s", "t">>), Chars(<<"P", "u", "t">>),
      Chars(<<"P", "A", "T", "C", "H">>), Chars(<<"p", "a", "t", "c", "h">>),
      Chars(<<"d", "e", "l", "e", "t", "E">>), Chars(<<"O", "P", "T", "I", "O", "N", "S">>) }

\* RequestInit.headers as callers write them; Undef: not given.
CallerHeaders ==
    { Undef,
      EmptyMap,
      [k \in {"X-CSRF-Token"} |-> "mine"],
      [k \in {"Content-Type"} |-> "text/plain"],
      [k \in {"Content-Type"} |-> ""],
      [k \in {"Accept", "X-CSRF-Token"} |-> IF k = "Accept" THEN "*/*" ELSE "mine"] }

\* The options of a call.
Options ==
    [method : Methods, headers : CallerHeaders, credentials : {Undef, Str("omit")},
     body : {Undef}]

GwInit ==
    /\ EditorAbsent
    /\ QueueAbsent
    /\ TelegramAbsent
    /\ DashboardAbsent
    /\ document \in Documents
    /\ gwSent = Null
    /\ gwLast = [op |-> "other"]

\* apiFetch(path, options), up to the await of fetch(): a token that cannot
\* be decoded throws out of getCsrfToken before any request is made.
ApiFetch(options) ==
    LET mutating == MethodOf(options) \in MutatingMethods
        token == getCsrfToken(document)
    IN  /\ IF mutating /\ ~token.ok
           THEN /\ gwLast' = [op |-> "apiFetch", options |-> options, sent |-> FALSE]
                /\ UNCHANGED gwSent
           ELSE /\ gwSent' = ApiFetchInit(options, IF mutating THEN token.s ELSE "")
                /\ gwLast' = [op |-> "apiFetch", options |-> options, sent |-> TRUE]
        /\ UNCHANGED <<edVars, qVars, tgVars, dbVars, document>>

GwNext == \E options \in Options : ApiFetch(options)

SpecGateway == GwInit /\ [][GwNext]_vars

(***************************************************************************)
(* TelegramConfigForm: the form of the bot token, the webhook secret and   *)
(* the allowed user ids of a brand.  A stored secret is shown as '***'.    *)
(***************************************************************************)

\* the names of the two secret fields
SecretFields == {"telegram_bot_token", "telegram_webhook_secret"}

\* the initial value of useState for formData
InitialFormData(initialConfig) ==
    [ telegram_bot_token |-> IF Truthy(initialConfig.telegram_bot_token) THEN "***" ELSE "",
      telegram_webhook_secret |-> IF Truthy(initialConfig.telegram_webhook_secret) THEN "***" ELSE "",
      allowed_user_ids |-> IF Truthy(initialConfig.allowed_user_ids)
                           THEN initialConfig.allowed_user_ids.s ELSE "" ]

\* the payload of handleSubmit built with both secrets whenever non-empty
TelegramPayloadKeepsMask(fd) ==
    LET keys == {"allowed_user_ids"} \cup {f \in SecretFields : fd[f] # ""}
    IN  [k \in keys |-> fd[k]]

\* the payload handleSubmit builds from the form: a secret when it is
\* non-empty and not the mask, the allowed user ids always
TelegramPayload(fd) ==
    LET keys == {"allowed_user_ids"} \cup {f \in SecretFields : fd[f] # "" /\ fd[f] # "***"}
    IN  [k \in keys |-> fd[k]]

\* The form as mounted with the initialConfig the page passes: the brand's
\* fields, each null or a string.
TgInit ==
    /\ \E initialConfig \in [ telegram_bot_token : {Null, Str("tok")},
                              telegram_webhook_secret : {Null, Str(""), Str("sec")},
                              allowed_user_ids : {Null, Str("42")} ] :
          formData = InitialFormData(initialConfig)
    /\ tgLoading = FALSE
    /\ tgMessage = Null
    /\ tgReq = Null
    /\ tgLast = [op |-> "other"]
    /\ EditorAbsent
    /\ QueueAbsent
    /\ GatewayIdle
    /\ DashboardAbsent

\* handleChange: the user types text into the field called name
TgHandleChange(name, text) ==
    /\ formData[name] # text
    /\ formData' = [formData EXCEPT ![name] = text]
    /\ tgLast' = [op |-> "change"]
    /\ UNCHANGED <<edVars, qVars, gwVars, dbVars, tgLoading, tgMessage, tgReq>>

\* handleSubmit up to its await: the submit button is disabled while loading
TgHandleSubmit ==
    /\ ~tgLoading
    /\ tgLoading' = TRUE
    /\ tgMessage' = Null
    /\ tgReq' = [method |-> "PUT", payload |-> TelegramPayload(formData), form0 |-> formData]
    /\ tgLast' = [op |-> "submit", prevOp |-> tgLast.op]
    /\ UNCHANGED <<edVars, qVars, gwVars, dbVars, formData>>

\* handleSubmit after its await, the request having succeeded
TgHandleSubmitOk ==
    /\ tgReq # Null
    /\ tgMessage' = [text |-> "Telegram configuration saved successfully!", type |-> "success"]
    /\ formData' = [formData EXCEPT !.telegram_bot_token = IF @ # "" THEN "***" ELSE "",
                                    !.telegram_webhook_secret = IF @ # "" THEN "***" ELSE ""]
    /\ tgLoading' = FALSE
    /\ tgReq' = Null
    /\ tgLast' = [op |-> "saved", prev |-> formData]
    /\ UNCHANGED <<edVars, qVars, gwVars, dbVars>>

\* handleSubmit after its await, the request having failed
TgHandleSubmitFail(outcome) ==
    /\ tgReq # Null
    /\ tgMessage' = [text |-> getErrorMessage(ApiFetchThrow(outcome), "Failed to update configuration"),
                     type |-> "error"]
    /\ tgLoading' = FALSE
    /\ tgReq' = Null
    /\ tgLast' = [op |-> "failed"]
    /\ UNCHANGED <<edVars, qVars, gwVars, dbVars, formData>>

TgNext ==
    \/ \E name \in DOMAIN formData :
          \E text \in (IF name \in SecretFields THEN {"", "***", "tok2", "***x"} ELSE {"", "42", "***"}) :
             TgHandleChange(name, text)
    \/ TgHandleSubmit
    \/ TgHandleSubmitOk
    \/ \E outcome \in FailedOutcomes : TgHandleSubmitFail(outcome)

SpecTelegram == TgInit /\ [][TgNext]_vars

(***************************************************************************)
(* DashboardContent: the page that loads the dashboard of the brand named  *)
(* in the URL and renders AiProfileEditor and PostQueue for the selected   *)
(* brand.  The children are followed as far as their loads, saves and      *)
(* transitions go: which brand's document and list they hold, their        *)
(* loading flags and their messages.                                       *)
(***************************************************************************)

\* the user inputs followed on the page
MaxDbClicks == 2

\* the failed outcomes of a request of the page or of a child
DbFailedOutcomes ==
    { [kind |-> "http", status |-> 401, detail |-> Undef],
      [kind |-> "http", status |-> 403, detail |-> Str("Not authorized")],
      [kind |-> "http", status |-> 500, detail |-> Undef] }

\* a request in flight: its kind, the brand id in its URL (for createBrand,
\* the activeBrandId its onSuccess closure holds), and whether the component
\* that awaits it has been torn down
DbReq(kind, brand) == [kind |-> kind, brand |-> brand, orphan |-> FALSE]

\* the requests after the children (and the brand form) are unmounted
Orphaned(reqs) ==
    [i \in 1..Len(reqs) |->
        IF reqs[i].kind \in {"config", "posts", "save", "publish", "createBrand"}
        THEN [reqs[i] EXCEPT !.orphan = TRUE] ELSE reqs[i]]

\* The children and the requests after the page renders brand b (0: no
\* brand) in place of what it showed: unmounted when no brand is rendered;
\* mounted with the initial values of their useState, their effects loading
\* the brand; or, already mounted for another brand, kept with the new
\* brandId prop, the effects of fetchConfig and fetchPosts run again.
Rerender(ch, reqs, b) ==
    IF b = 0 THEN [children |-> Null, reqs |-> Orphaned(reqs)]
    ELSE IF ch = Null
    THEN [children |-> [ brandId |-> b,
                         configOf |-> 0, edLoading |-> TRUE, edSaving |-> FALSE, edMessage |-> Null,
                         postsOf |-> 0, pqLoading |-> TRUE, pqError |-> Null, actionError |-> Null ],
          reqs |-> reqs \o <<DbReq("config", b), DbReq("posts", b)>>]
    ELSE IF ch.brandId = b THEN [children |-> ch, reqs |-> reqs]
    ELSE [children |-> [ch EXCEPT !.brandId = b,
                                  !.edLoading = TRUE, !.edMessage = Null,
                                  !.pqLoading = TRUE, !.pqError = Null],
          reqs |-> reqs \o <<DbReq("config", b), DbReq("posts", b)>>]

\* the page renders its brand list and forms
PageRendered == pathname = "/dashboard" /\ ~dbLoading /\ dbError = Null /\ dbData # Null

DbInit ==
    /\ activeBrandId \in {0, 1}
    /\ dbData = Null
    /\ dbLoading = TRUE
    /\ dbError = Null
    /\ pathname = "/dashboard"
    /\ dbReqs = <<DbReq("dashboard", activeBrandId)>>
    /\ children = Null
    /\ dbClicks = 0
    /\ dbLast = [op |-> "other"]
    /\ EditorAbsent
    /\ QueueAbsent
    /\ GatewayIdle
    /\ TelegramAbsent

\* fetchDashboardData(brandId) up to its await, as the page then renders
StartDashboardFetch(reqs, brandId) ==
    /\ dbLoading' = TRUE
    /\ dbError' = Null
    /\ children' = Null
    /\ dbReqs' = Orphaned(reqs) \o <<DbReq("dashboard", brandId)>>

\* a click on brand b of the list: router.push, and the effect of the new
\* activeBrandId
SelectBrand(b) ==
    /\ PageRendered
    /\ dbClicks < MaxDbClicks
    /\ b # activeBrandId
    /\ activeBrandId' = b
    /\ StartDashboardFetch(dbReqs, b)
    /\ dbClicks' = dbClicks + 1
    /\ dbLast' = [op |-> "other"]
    /\ UNCHANGED <<edVars, qVars, gwVars, tgVars, dbData, pathname>>

\* CreateBrandForm's submit up to its await
CreateBrandSubmit ==
    /\ PageRendered
    /\ dbClicks < MaxDbClicks
    /\ \A i \in 1..Len(dbReqs) : dbReqs[i].kind = "createBrand" => dbReqs[i].orphan
    /\ dbReqs' = dbReqs \o <<DbReq("createBrand", activeBrandId)>>
    /\ dbClicks' = dbClicks + 1
    /\ dbLast' = [op |-> "other"]
    /\ UNCHANGED <<edVars, qVars, gwVars, tgVars, activeBrandId, dbData, dbLoading, dbError, pathname, children>>

\* CreateBrandForm's submit after its await: on success onSuccess(), which
\* is fetchDashboardData with the activeBrandId of the render that built it
CreateBrandDone(i, ok) ==
    /\ pathname = "/dashboard"
    /\ dbReqs[i].kind = "createBrand"
    /\ IF ok
       THEN StartDashboardFetch(RemoveAt(dbReqs, i), dbReqs[i].brand)
       ELSE /\ dbReqs' = RemoveAt(dbReqs, i)
            /\ UNCHANGED <<dbLoading, dbError, children>>
    /\ dbLast' = [op |-> "other"]
    /\ UNCHANGED <<edVars, qVars, gwVars, tgVars, activeBrandId, dbData, pathname, dbClicks>>

\* fetchDashboardData after its await, success: setData, setLoading(false);
\* sel is selected_brand.id of the payload (0: no brand selected), and the
\* page renders the children of that brand unless it shows an error
FetchDashboardOk(i, sel) ==
    /\ pathname = "/dashboard"
    /\ dbReqs[i].kind = "dashboard"
    /\ dbData' = [selected_brand |-> sel]
    /\ dbLoading' = FALSE
    /\ LET r == Rerender(children, RemoveAt(dbReqs, i), IF dbError = Null THEN sel ELSE 0)
       IN  children' = r.children /\ dbReqs' = r.reqs
    /\ dbLast' = [op |-> "dashboardLoaded"]
    /\ UNCHANGED <<edVars, qVars, gwVars, tgVars, activeBrandId, dbError, pathname, dbClicks>>

\* the catch of fetchDashboardData redirecting to the login page whatever
\* the failure
FetchDashboardFailAlwaysRedirects(i, outcome) ==
    /\ pathname = "/dashboard"
    /\ dbReqs[i].kind = "dashboard"
    /\ pathname' = "/login"
    /\ dbLoading' = FALSE
    /\ children' = Null
    /\ dbReqs' = Orphaned(RemoveAt(dbReqs, i))
    /\ dbLast' = [op |-> "dashboardFailed", status |-> ApiFetchThrow(outcome).status]
    /\ UNCHANGED <<edVars, qVars, gwVars, tgVars, activeBrandId, dbData, dbError, dbClicks>>

\* fetchDashboardData after its await, failure: on 401 or 403 the redirect
\* to the login page and no error; otherwise the error; setLoading(false)
FetchDashboardFail(i, outcome) ==
    /\ pathname = "/dashboard"
    /\ dbReqs[i].kind = "dashboard"
    /\ dbLoading' = FALSE
    /\ IF ApiFetchThrow(outcome).isError /\ ApiFetchThrow(outcome).status \in {401, 403}
       THEN /\ pathname' = "/login"
            /\ children' = Null
            /\ dbReqs' = Orphaned(RemoveAt(dbReqs, i))
            /\ UNCHANGED dbError
       ELSE /\ dbError' = Str(getErrorMessage(ApiFetchThrow(outcome), "Failed to view dashboard"))
            /\ children' = Null
            /\ dbReqs' = Orphaned(RemoveAt(dbReqs, i))
            /\ UNCHANGED pathname
    /\ dbLast' = [op |-> "dashboardFailed", status |-> ApiFetchThrow(outcome).status]
    /\ UNCHANGED <<edVars, qVars, gwVars, tgVars, activeBrandId, dbData, dbClicks>>

\* request i is awaited by a mounted child
Awaited(i, kind) == dbReqs[i].kind = kind /\ ~dbReqs[i].orphan /\ children # Null

\* the child's fetchConfig after its await, success
ChildFetchConfigOk(i) ==
    /\ Awaited(i, "config")
    /\ children' = [children EXCEPT !.configOf = dbReqs[i].brand, !.edLoading = FALSE]
    /\ dbReqs' = RemoveAt(dbReqs, i)
    /\ dbLast' = [op |-> "configLoaded", brand |-> dbReqs[i].brand, shown |-> children.brandId]
    /\ UNCHANGED <<edVars, qVars, gwVars, tgVars, activeBrandId, dbData, dbLoading, dbError, pathname, dbClicks>>

\* the child's fetchConfig after its await, failure
ChildFetchConfigFail(i, outcome) ==
    /\ Awaited(i, "config")
    /\ children' = [children EXCEPT
                      !.edMessage = Str(getErrorMessage(ApiFetchThrow(outcome), "Failed to fetch AI configuration")),
                      !.edLoading = FALSE]
    /\ dbReqs' = RemoveAt(dbReqs, i)
    /\ dbLast' = [op |-> "configFailed", status |-> ApiFetchThrow(outcome).status]
    /\ UNCHANGED <<edVars, qVars, gwVars, tgVars, activeBrandId, dbData, dbLoading, dbError, pathname, dbClicks>>

\* the child's fetchPosts after its await, success
ChildFetchPostsOk(i) ==
    /\ Awaited(i, "posts")
    /\ children' = [children EXCEPT !.postsOf = dbReqs[i].brand, !.pqLoading = FALSE]
    /\ dbReqs' = RemoveAt(dbReqs, i)
    /\ dbLast' = [op |-> "postsLoaded", brand |-> dbReqs[i].brand, shown |-> children.brandId]
    /\ UNCHANGED <<edVars, qVars, gwVars, tgVars, activeBrandId, dbData, dbLoading, dbError, pathname, dbClicks>>

\* the child's fetchPosts after its await, failure
ChildFetchPostsFail(i, outcome) ==
    /\ Awaited(i, "posts")
    /\ children' = [children EXCEPT
                      !.pqError = Str(getErrorMessage(ApiFetchThrow(outcome), "Failed to fetch posts")),
                      !.pqLoading = FALSE]
    /\ dbReqs' = RemoveAt(dbReqs, i)
    /\ dbLast' = [op |-> "postsFailed", status |-> ApiFetchThrow(outcome).status]
    /\ UNCHANGED <<edVars, qVars, gwVars, tgVars, activeBrandId, dbData, dbLoading, dbError, pathname, dbClicks>>

\* the child's handleSave up to its await (a structured tab)
ChildHandleSave ==
    /\ PageRendered
    /\ children # Null
    /\ ~children.edLoading
    /\ ~children.edSaving
    /\ dbClicks < MaxDbClicks
    /\ children' = [children EXCEPT !.edSaving = TRUE, !.edMessage = Null]
    /\ dbReqs' = dbReqs \o <<DbReq("save", children.brandId)>>
    /\ dbClicks' = dbClicks + 1
    /\ dbLast' = [op |-> "other"]
    /\ UNCHANGED <<edVars, qVars, gwVars, tgVars, activeBrandId, dbData, dbLoading, dbError, pathname>>

\* the child's handleSave after its await, success
ChildHandleSaveOk(i) ==
    /\ Awaited(i, "save")
    /\ children' = [children EXCEPT !.edMessage = Str("Configuration saved successfully!"),
                                    !.edSaving = FALSE]
    /\ dbReqs' = RemoveAt(dbReqs, i)
    /\ dbLast' = [op |-> "saved"]
    /\ UNCHANGED <<edVars, qVars, gwVars, tgVars, activeBrandId, dbData, dbLoading, dbError, pathname, dbClicks>>

\* the child's handleSave after its await, failure
ChildHandleSaveFail(i, outcome) ==
    /\ Awaited(i, "save")
    /\ children' = [children EXCEPT
                      !.edMessage = Str(getErrorMessage(ApiFetchThrow(outcome), "Failed to save configuration")),
                      !.edSaving = FALSE]
    /\ dbReqs' = RemoveAt(dbReqs, i)
    /\ dbLast' = [op |-> "saveFailed", status |-> ApiFetchThrow(outcome).status]
    /\ UNCHANGED <<edVars, qVars, gwVars, tgVars, activeBrandId, dbData, dbLoading, dbError, pathname, dbClicks>>

\* the child's handlePublish up to its await, on a post of the list shown
ChildHandlePublish ==
    /\ PageRendered
    /\ children # Null
    /\ ~children.pqLoading
    /\ children.pqError = Null
    /\ children.postsOf # 0
    /\ dbClicks < MaxDbClicks
    /\ children' = [children EXCEPT !.actionError = Null]
    /\ dbReqs' = dbReqs \o <<DbReq("publish", children.brandId)>>
    /\ dbClicks' = dbClicks + 1
    /\ dbLast' = [op |-> "other"]
    /\ UNCHANGED <<edVars, qVars, gwVars, tgVars, activeBrandId, dbData, dbLoading, dbError, pathname>>

\* the child's handlePublish after its await, success: await fetchPosts()
ChildHandlePublishOk(i) ==
    /\ Awaited(i, "publish")
    /\ children' = [children EXCEPT !.pqLoading = TRUE, !.pqError = Null]
    /\ dbReqs' = RemoveAt(dbReqs, i) \o <<DbReq("posts", dbReqs[i].brand)>>
    /\ dbLast' = [op |-> "published"]
    /\ UNCHANGED <<edVars, qVars, gwVars, tgVars, activeBrandId, dbData, dbLoading, dbError, pathname, dbClicks>>

\* the child's handlePublish after its await, failure
ChildHandlePublishFail(i, outcome) ==
    /\ Awaited(i, "publish")
    /\ children' = [children EXCEPT
                      !.actionError = Str(getErrorMessage(ApiFetchThrow(outcome), "Failed to publish"))]
    /\ dbReqs' = RemoveAt(dbReqs, i)
    /\ dbLast' = [op |-> "publishFailed", status |-> ApiFetchThrow(outcome).status]
    /\ UNCHANGED <<edVars, qVars, gwVars, tgVars, activeBrandId, dbData, dbLoading, dbError, pathname, dbClicks>>

\* The response to a request whose component has been torn down (or, the
\* page left for the login page, to any request): its state updates go to
\* an unmounted component and change nothing.
CompleteTornDown(i) ==
    /\ \/ dbReqs[i].kind \in {"config", "posts", "save", "publish"} /\ dbReqs[i].orphan
       \/ pathname = "/login"
    /\ dbReqs' = RemoveAt(dbReqs, i)
    /\ dbLast' = [op |-> "other"]
    /\ UNCHANGED <<edVars, qVars, gwVars, tgVars, activeBrandId, dbData, dbLoading, dbError, pathname, children, dbClicks>>

DbNext ==
    \/ \E b \in {1, 2} : SelectBrand(b)
    \/ CreateBrandSubmit
    \/ \E i \in 1..Len(dbReqs) : \E ok \in BOOLEAN : CreateBrandDone(i, ok)
    \/ \E i \in 1..Len(dbReqs) :
          \E sel \in (IF dbReqs[i].brand = 0 THEN {0, 1} ELSE {dbReqs[i].brand}) : FetchDashboardOk(i, sel)
    \/ \E i \in 1..Len(dbReqs) : \E outcome \in DbFailedOutcomes : FetchDashboardFail(i, outcome)
    \/ \E i \in 1..Len(dbReqs) : ChildFetchConfigOk(i)
    \/ \E i \in 1..Len(dbReqs) : \E outcome \in DbFailedOutcomes : ChildFetchConfigFail(i, outcome)
    \/ \E i \in 1..Len(dbReqs) : ChildFetchPostsOk(i)
    \/ \E i \in 1..Len(dbReqs) : \E outcome \in DbFailedOutcomes : ChildFetchPostsFail(i, outcome)
    \/ ChildHandleSave
    \/ \E i \in 1..Len(dbReqs) : ChildHandleSaveOk(i)
    \/ \E i \in 1..Len(dbReqs) : \E outcome \in DbFailedOutcomes : ChildHandleSaveFail(i, outcome)
    \/ ChildHandlePublish
    \/ \E i \in 1..Len(dbReqs) : ChildHandlePublishOk(i)
    \/ \E i \in 1..Len(dbReqs) : \E outcome \in DbFailedOutcomes : ChildHandlePublishFail(i, outcome)
    \/ \E i \in 1..Len(dbReqs) : CompleteTornDown(i)

SpecDashboard == DbInit /\ [][DbNext]_vars

(***************************************************************************)
(* Properties of the path mutator and of the editor.                       *)
(***************************************************************************)
\* C1: after updateField(path, v) on any document, reading the new document
\* at the path yields v, and the document it was called on still reads as
\* it did before the call.
C1_SetThenGet ==
    edLast.op = "set" =>
        /\ GetAtPath(configObj, edLast.path, 1) = edLast.value
        /\ edLast.prevAfter = edLast.before

\* C1's case: an edit below a nested document that the previous snapshot
\* also holds, which changed the document.
C1_Witness ==
    /\ edLast.op = "set"
    /\ Len(edLast.path) >= 2
    /\ isJsonObject(GetKey(edLast.before.o, edLast.path[1]))
    /\ configObj # edLast.before

\* a value that is a keyed document
IsDocument(v) == v.t = "obj"

\* C2: a save from a structured tab, after nothing but structured edits of
\* the loaded document, sends every top-level key no structured control
\* writes under with the value it was loaded with.
C2_UnknownKeysPreserved ==
    (saveReq.sent /\ saveReq.tab # "advanced" /\ edHist.structOnly) =>
        \A k \in (DOMAIN edHist.loaded.o) \ StructuredRoots :
            GetKey(SentConfig.o, k) = edHist.loaded.o[k]

\* C2's case: such a save of a document with an unknown key, after an edit.
C2_Witness ==
    /\ saveReq.sent /\ saveReq.tab # "advanced" /\ edHist.structOnly
    /\ (DOMAIN edHist.loaded.o) \ StructuredRoots # {}
    /\ SentConfig # edHist.loaded

\* C7: a save from the raw view whose text is no keyed document sets an
\* error message, sends nothing and leaves the document and the raw text as
\* they were.
C7_InvalidRawAborts ==
    (/\ edLast.op = "save"
     /\ edLast.tab = "advanced"
     /\ ~(JsonParse(edLast.raw0).ok /\ IsDocument(JsonParse(edLast.raw0).v))) =>
        /\ message.type = "error"
        /\ ~saveReq.sent
        /\ ~saving
        /\ configObj = edLast.doc0
        /\ rawConfig = edLast.raw0

\* C7's case: a save from the raw view of a text that parses, to an array.
C7_Witness ==
    /\ edLast.op = "save"
    /\ edLast.tab = "advanced"
    /\ JsonParse(edLast.raw0).ok
    /\ JsonParse(edLast.raw0).v.t = "arr"

\* C11: in every state the in-memory document is a keyed document, and the
\* PUT in flight, if any, carries a keyed document as its config: never an
\* array, a scalar or null.
C11_PayloadIsDocument ==
    /\ IsDocument(configObj)
    /\ saveReq.sent =>
        /\ JsonParse(saveReq.body).ok
        /\ IsDocument(JsonParse(saveReq.body).v)
        /\ DOMAIN JsonParse(saveReq.body).v.o = {"config"}
        /\ IsDocument(SentConfig)

\* C11's case: a PUT sent from a structured tab after a load whose config
\* was absent or an array, and after an edit.
C11_Witness ==
    /\ saveReq.sent
    /\ saveReq.tab # "advanced"
    /\ edHist.loaded = EmptyObj
    /\ SentConfig # EmptyObj

\* C8: when the PUT fails, the document and the raw text are as they were
\* before the save was clicked (the user having typed nothing meanwhile),
\* whichever tab was active.
C8_FailedSaveRestores ==
    [][(saveReq.sent /\ ~saveReq'.sent /\ message'.type = "error" /\ ~saveReq.touched) =>
        (configObj' = saveReq.doc0 /\ rawConfig' = saveReq.raw0)]_vars

\* C10 as stated: after any 2xx response to the PUT, the document is the
\* response's config and the raw text its serialization.
C10_AnyResponseReplaces ==
    edLast.op = "saveOk" =>
        /\ configObj = edLast.config
        /\ rawConfig = JsonStringify(edLast.config)

\* C10, amended: after a 2xx response whose config is a keyed document, the
\* document is that config and the raw text its serialization, whatever
\* was typed while the PUT was in flight.
C10_ReturnedDocumentReplaces ==
    (edLast.op = "saveOk" /\ IsDocument(edLast.config)) =>
        /\ configObj = edLast.config
        /\ rawConfig = JsonStringify(edLast.config)

\* C10's case: the server returned a document other than the one sent, and
\* the user typed while the PUT was in flight.
C10_Witness ==
    /\ edLast.op = "saveOk"
    /\ IsDocument(edLast.config)
    /\ edLast.touched
    /\ edCount >= 2

\* the first n segments of the path of the last updateField call
Prefix(n) == SubSeq(edLast.path, 1, n)

\* C19: after updateField(path, value), every position the path descends
\* through holds a nested document.  Where the document held one before
\* the call, it has the keys it had, with the values they had, but for the
\* next segment of the path; where it held anything else (nothing, null, a
\* scalar, an array), the document there has the next segment as its only
\* key.
C19_NonDocumentsReplaced ==
    edLast.op = "set" =>
        \A n \in 0..(Len(edLast.path) - 1) :
            LET was == GetAtPath(edLast.before, Prefix(n), 1)
                is == GetAtPath(configObj, Prefix(n), 1)
                next == edLast.path[n + 1]
            IN  /\ is.t = "obj"
                /\ next \in DOMAIN is.o
                /\ IF was.t = "obj"
                   THEN /\ DOMAIN is.o = DOMAIN was.o \cup {next}
                        /\ \A k \in DOMAIN was.o \ {next} : is.o[k] = was.o[k]
                   ELSE DOMAIN is.o = {next}

\* C19's case: the path brand.tagline.a set in a document whose brand is
\* an array: brand becomes a document holding tagline only, and
\* caption_rules is as it was.
C19_Witness ==
    /\ edLast.op = "set"
    /\ edLast.path = <<"brand", "tagline", "a">>
    /\ GetAtPath(edLast.before, <<"brand">>, 1).t = "arr"
    /\ GetAtPath(configObj, <<"brand">>, 1) = Obj([tagline |-> Obj([a |-> edLast.value])])
    /\ GetAtPath(configObj, <<"caption_rules">>, 1) = GetAtPath(edLast.before, <<"caption_rules">>, 1)

\* C20: after every updateField call the raw text is the serialization of
\* the document as the call left it.
C20_RawFollowsEdit ==
    edLast.op = "set" => rawConfig = JsonStringify(configObj)

\* C20's case: the second of two calls that both changed the document.
C20_Witness ==
    /\ edLast.op = "set"
    /\ edCount = 2
    /\ edLast.before # edHist.loaded
    /\ configObj # edLast.before
    /\ rawConfig # JsonStringify(edLast.before)

\* C21 as stated: whenever the editor shows a structured tab, the raw text
\* is the serialization of the document (once a load or an edit has given
\* the raw text a value).
C21_RawFollowsOnStructuredTab ==
    (~loading /\ activeTab # "advanced" /\ edHist.raw # "initial") =>
        rawConfig = JsonStringify(configObj)

\* C21, amended: the raw text is the serialization of the document, on
\* every tab, from the moment a load, a structured edit or the response to
\* a save has generated it until the user types into the raw view.
C21_GeneratedRawFollows ==
    edHist.raw = "generated" => rawConfig = JsonStringify(configObj)

\* C21's case: on a structured tab, after a structured edit of the loaded
\* document, the raw text typed before being replaced.
C21_Witness ==
    /\ activeTab = "captions"
    /\ edHist.raw = "generated"
    /\ edCount >= 2
    /\ configObj # edHist.loaded
    /\ rawConfig # <<>>

\* C22: typing into the raw view leaves the document as it is, and a save
\* from a structured tab sends the document as it is at the click,
\* whatever the raw text is.
C22_RawParsedOnlyBySaveOnRaw ==
    [][ /\ (edCount' = edCount + 1 /\ activeTab = "advanced" /\ edLast'.op # "save") =>
              /\ configObj' = configObj
              /\ saveReq'.sent = saveReq.sent
        /\ (edCount' = edCount + 1 /\ activeTab # "advanced" /\ edLast'.op = "save") =>
              /\ saveReq'.sent
              /\ JsonParse(saveReq'.body).v = Obj([config |-> configObj])
              /\ configObj' = configObj
      ]_vars

\* C22's case: a save from a structured tab in flight, the raw text being
\* a document typed into the raw view that is not the document sent.
C22_Witness ==
    /\ saveReq.sent
    /\ saveReq.tab # "advanced"
    /\ edHist.raw = "typed"
    /\ JsonParse(saveReq.raw0).ok
    /\ isJsonObject(JsonParse(saveReq.raw0).v)
    /\ JsonParse(saveReq.raw0).v # SentConfig

\* C23: a load that succeeds puts the response's config in the document,
\* or the empty document when the response has none or one that is no
\* keyed document, and its serialization in the raw text; a load that fails
\* leaves both as they were and sets an error message.
C23_LoadReplacesOrLeaves ==
    /\ edLast.op = "loaded" =>
          /\ configObj = (IF edLast.config.t = "obj" THEN edLast.config ELSE EmptyObj)
          /\ rawConfig = JsonStringify(configObj)
    /\ edLast.op = "loadFailed" =>
          /\ configObj = edLast.doc0
          /\ rawConfig = edLast.raw0
          /\ message.type = "error"
          /\ message.text # ""

\* C23's case: a load answered with a config that is an array.
C23_Witness ==
    /\ edLast.op = "loaded"
    /\ edLast.config.t = "arr"
    /\ configObj = EmptyObj
    /\ rawConfig = <<P("{"), P("}")>>

\* C28: saving is true exactly while the PUT of a save is in flight, and a
\* save starts only when saving is false, so that no PUT is sent while
\* another is in flight.
C28_SavingWhileInFlight ==
    /\ [](saving <=> saveReq.sent)
    /\ [][(edCount' = edCount + 1 /\ edLast'.op = "save") => (~saving /\ ~saveReq.sent)]_vars

\* C28's case: a save from the raw view stopped by a text that does not
\* parse: saving is false again and nothing is in flight.
C28_Witness ==
    /\ edLast.op = "save"
    /\ edLast.tab = "advanced"
    /\ message.type = "error"
    /\ ~saving
    /\ ~saveReq.sent

\* C30: the timer of a save that succeeded leaves an error message that is
\* displayed when it fires as it is.
C30_TimerSparesErrors ==
    [][(timers' = timers - 1 /\ message.type = "error") => message' = message]_vars

(***************************************************************************)
(* Properties of the parsing controls.  The pieces of a text are stated    *)
(* here by the positions of its separators.                                *)
(***************************************************************************)
\* 0, the positions of sep in cs in increasing order, and Len(cs) + 1
Cuts(cs, sep) ==
    <<0>> \o SelectSeq([i \in 1..Len(cs) |-> i], LAMBDA i : cs[i] = sep) \o <<Len(cs) + 1>>

\* the stretches of cs between two successive separators
Pieces(cs, sep) ==
    LET c == Cuts(cs, sep)
    IN  [j \in 1..(Len(c) - 1) |-> SubSeq(cs, c[j] + 1, c[j + 1] - 1)]

\* cs from its first to its last character that is no white space
Strip(cs) ==
    LET ns == {i \in 1..Len(cs) : ~IsSpace(cs[i])}
    IN  IF ns = {} THEN <<>>
        ELSE SubSeq(cs, CHOOSE i \in ns : \A j \in ns : i <= j,
                        CHOOSE i \in ns : \A j \in ns : i >= j)

\* the value at the path of the last onChange
Typed == GetAtPath(configObj, edLast.path, 1)

\* C12: the array control stores the pieces of its text between commas,
\* each stripped of surrounding white space, the empty ones left out, in
\* the order of the text and with duplicates kept; "a, b ,, c" is stored
\* as ["a", "b", "c"].
C12_ArrayPieces ==
    (edLast.op = "typed" /\ edLast.kind = "array") =>
        LET pieces == Pieces(edLast.val, ",")
            kept == SelectSeq([j \in 1..Len(pieces) |-> Strip(pieces[j])], LAMBDA s : s # <<>>)
        IN  /\ Typed = Arr([j \in 1..Len(kept) |-> Str(Join(kept[j]))])
            /\ edLast.val = <<"a", ",", " ", "b", " ", ",", ",", " ", "c">>
                   => Typed = Arr(<<Str("a"), Str("b"), Str("c")>>)

\* C12's case: the text "a, b ,, c" typed into the array control.
C12_Witness ==
    /\ edLast.op = "typed"
    /\ edLast.kind = "array"
    /\ edLast.val = <<"a", ",", " ", "b", " ", ",", ",", " ", "c">>
    /\ Len(Typed.e) = 3

\* the place of the first colon of a line, 0 when it has none
FirstColon(line) ==
    LET cs == {i \in 1..Len(line) : line[i] = ":"}
    IN  IF cs = {} THEN 0 ELSE CHOOSE i \in cs : \A j \in cs : i <= j

LineKey(line) == Strip(SubSeq(line, 1, FirstColon(line) - 1))

LineValue(line) == Strip(SubSeq(line, FirstColon(line) + 1, Len(line)))

LineCounts(line) == FirstColon(line) > 0 /\ LineKey(line) # <<>> /\ LineValue(line) # <<>>

\* C13: the dictionary control stores, for the lines of its text that have
\* a colon and a non-empty key before and value after the first colon
\* (both stripped), the value of the last such line of each key, and
\* nothing for the other lines; "x: 1\ny:2\nbadline\nx: 3" is stored as
\* {x: "3", y: "2"}.
C13_DictLines ==
    (edLast.op = "typed" /\ edLast.kind = "dict") =>
        LET lines == Pieces(edLast.val, "\n")
            valid == {j \in 1..Len(lines) : LineCounts(lines[j])}
            keys == {Join(LineKey(lines[j])) : j \in valid}
            last(k) == CHOOSE j \in valid :
                          /\ Join(LineKey(lines[j])) = k
                          /\ \A i \in valid : Join(LineKey(lines[i])) = k => i <= j
        IN  /\ Typed = Obj([k \in keys |-> Str(Join(LineValue(lines[last(k)])))])
            /\ edLast.val = <<"x", ":", " ", "1", "\n", "y", ":", "2", "\n", "b", "a", "d", "l", "i",
                              "n", "e", "\n", "x", ":", " ", "3">>
                   => Typed = Obj([x |-> Str("3"), y |-> Str("2")])

\* C13's case: the text "x: 1\ny:2\nbadline\nx: 3" typed into the
\* dictionary control.
C13_Witness ==
    /\ edLast.op = "typed"
    /\ edLast.kind = "dict"
    /\ Len(edLast.val) = 21
    /\ DOMAIN Typed.o = {"x", "y"}

\* a text that is a decimal integer: digits, after an optional minus sign
IsDecimalInteger(val) ==
    LET digits == IF val # <<>> /\ Head(val) = "-" THEN Tail(val) ELSE val
    IN  /\ digits # <<>>
        /\ \A i \in 1..Len(digits) : DigitVal(digits[i]) \in 0..9 /\ digits[i] \notin {"a", "A"}

\* C14: a numeric-looking control stores a text that is an integer as that
\* integer, and a text parseInt makes nothing of as the text itself.
C14_IntegerTextStoredAsInteger ==
    (edLast.op = "typed" /\ edLast.kind = "int") =>
        /\ IsDecimalInteger(edLast.val) => Typed = Num(ParseInt(edLast.val).n)
        /\ ParseInt(edLast.val).nan => Typed = Str(Join(edLast.val))

SameButCase(cs, name) ==
    /\ Len(cs) = Len(name)
    /\ \A i \in 1..Len(cs) :
          \/ cs[i] = name[i]
          \/ \E j \in 1..26 : {cs[i], name[i]} = {LowerCase[j], UpperCase[j]}

\* the last call named POST, PUT, PATCH or DELETE, in any case
CalledMutating ==
    /\ gwLast.options.method # Undef
    /\ \E name \in MutatingMethods : SameButCase(gwLast.options.method.cs, name)

\* C16: a request apiFetch sends with method POST, PUT, PATCH or DELETE, in
\* any case of the letters, carries the X-CSRF-Token header with the token
\* of the admin_csrf cookie; every request is sent with credentials
\* include; a request of another method carries the X-CSRF-Token header
\* only when the caller gave one, and then the caller's.
C16_MutatingCarryToken ==
    (gwLast.op = "apiFetch" /\ gwLast.sent) =>
        LET given == SpreadHeaders(gwLast.options.headers)
        IN  /\ gwSent.credentials = Str("include")
            /\ CalledMutating =>
                  /\ "X-CSRF-Token" \in DOMAIN gwSent.headers
                  /\ gwSent.headers["X-CSRF-Token"] = getCsrfToken(document).s
            /\ ~CalledMutating =>
                  /\ "X-CSRF-Token" \in DOMAIN gwSent.headers => "X-CSRF-Token" \in DOMAIN given
                  /\ gwSent.headers = given

\* C16's case: a call with method "delete" written in mixed case, the
\* caller's own token header and credentials omit, on a page that holds the
\* cookie: the request carries the cookie's token.
C16_Witness ==
    /\ gwLast.op = "apiFetch"
    /\ gwLast.sent
    /\ gwLast.options.method = Chars(<<"d", "e", "l", "e", "t", "E">>)
    /\ gwLast.options.credentials = Str("omit")
    /\ gwLast.options.headers # Undef
    /\ "X-CSRF-Token" \in DOMAIN gwLast.options.headers
    /\ gwSent.headers["X-CSRF-Token"] = "a=b"

(***************************************************************************)
(* Properties of the post queue.                                           *)
(***************************************************************************)
\* C3: whatever the case of its status, a post's row holds the publish
\* control iff the status is review_ready, approved or scheduled and the
\* schedule control iff it is review_ready or approved; and every publish
\* or schedule request in flight was issued from a row whose status
\* permitted the action.
C3_ControlsFollowStatus ==
    /\ \A k \in 1..Len(posts) :
        LET s == IF posts[k].status = Null THEN "" ELSE toLowerCase(posts[k].status.s)
        IN  /\ ("publish" \in Controls(posts[k])) <=> (s \in {"review_ready", "approved", "scheduled"})
            /\ ("schedule" \in Controls(posts[k])) <=> (s \in {"review_ready", "approved"})
    /\ \A i \in 1..Len(qReqs) :
        LET s == IF qReqs[i].kind = "fetch" \/ qReqs[i].row.status = Null THEN ""
                 ELSE toLowerCase(qReqs[i].row.status.s)
        IN  /\ qReqs[i].kind = "publish" => s \in {"review_ready", "approved", "scheduled"}
            /\ qReqs[i].kind = "schedule" => s \in {"review_ready", "approved"}

\* C3's case: a publish request issued from the row of a post shown with
\* the status SCHEDULED, next to a row with no control.
C3_Witness ==
    /\ \E i \in 1..Len(qReqs) :
        qReqs[i].kind = "publish" /\ qReqs[i].row.status = Str("SCHEDULED")
    /\ \E k \in 1..Len(posts) : Controls(posts[k]) = {}

\* C4: a click on Schedule in a row whose date-time input is empty sets the
\* error 'Pick a date/time first.', sends no request and starts no reload,
\* and leaves the post list as it was.
C4_ScheduleNeedsTime ==
    (qLast.op = "schedule" /\ ~Truthy(qLast.rawValue)) =>
        /\ actionError = Str("Pick a date/time first.")
        /\ qReqs = qLast.reqs0
        /\ ~qLoading
        /\ posts = qLast.posts0

\* C4's case: such a click in a row whose input was filled and then
\* cleared.
C4_Witness ==
    /\ qLast.op = "schedule"
    /\ qLast.rawValue = Str("")
    /\ posts # <<>>

\* C5: the post list is the list of the last list fetch that completed
\* with a 2xx response (the empty list before any did): no handler of a
\* publish or schedule action changes it.
C5_PostsAreLastFetch ==
    posts = (IF qFetched # Undef /\ Truthy(qFetched.posts) THEN qFetched.posts.e ELSE <<>>)

\* C5's case: the server has published a post the list shows as
\* review_ready, and the reload that follows the publish is in flight.
C5_Witness ==
    /\ qLoading
    /\ \E i \in 1..Len(qReqs) : qReqs[i].kind = "fetch"
    /\ \E k \in 1..Len(posts) :
        posts[k].status = Str("review_ready") /\ srvPosts[k].status = Str("posted")

\* C6: every schedule request carries scheduled_for, the instant of the
\* entered local date-time read in the client's time zone, and
\* scheduled_timezone, the identifier the client resolves or 'UTC' when it
\* resolves none, and nothing of the brand's time zone.
C6_ScheduleCarriesClientInstant ==
    \A i \in 1..Len(qReqs) :
        qReqs[i].kind = "schedule" =>
            LET body == JsonParse(qReqs[i].body).v.o
                offset == IF host.timeZone = Undef THEN host.offset
                          ELSE UtcOffset(host.timeZone.s)
            IN  /\ DOMAIN body = {"scheduled_for", "scheduled_timezone"}
                /\ body["scheduled_for"] = toISOString(LocalMinutes(qReqs[i].typed.s) - offset)
                /\ body["scheduled_timezone"] =
                       (IF host.timeZone = Undef THEN Str("UTC") ELSE host.timeZone)

\* C6's case: a schedule request from a client east of UTC for a local time
\* shortly after midnight, the brand's time zone being another one.
C6_Witness ==
    \E i \in 1..Len(qReqs) :
        /\ qReqs[i].kind = "schedule"
        /\ host.timeZone # Undef
        /\ host.offset > LocalMinutes(qReqs[i].typed.s)
        /\ UtcOffset(brandTz) # host.offset

Transitions(reqs, st) ==
    SelectSeq(reqs, LAMBDA r : r.kind \in {"publish", "schedule"} /\ r.st = st)

\* the list fetches among reqs
Fetches(reqs) == SelectSeq(reqs, LAMBDA r : r.kind = "fetch")

\* C17: a publish or schedule request is sent only by a step of the user,
\* and one at most by each; the step that handles a failed one sends no
\* request of any kind.
C17_NoAutomaticRetry ==
    [][ /\ Len(Transitions(qReqs', "sent")) > Len(Transitions(qReqs, "sent")) =>
              /\ qCount' = qCount + 1
              /\ Len(Transitions(qReqs', "sent")) = Len(Transitions(qReqs, "sent")) + 1
        /\ Len(Transitions(qReqs', "fail")) < Len(Transitions(qReqs, "fail")) =>
              \E i \in 1..Len(qReqs) : qReqs' = RemoveAt(qReqs, i)
      ]_vars

\* C17's case: a failed schedule request has been handled, and nothing is
\* in flight.
C17_Witness ==
    /\ qLast.op = "actionFail"
    /\ qLast.kind = "schedule"
    /\ qReqs = <<>>
    /\ actionError # Null

\* C18: the step that handles a publish or schedule request answered 2xx
\* sends one list fetch and leaves the post list as it is; the post list
\* changes only in the step that handles a list fetch answered 2xx, and
\* becomes the posts of the response, or the empty list when the response
\* has none.
C18_SuccessReloadsOnce ==
    [][ /\ Len(Transitions(qReqs', "ok")) < Len(Transitions(qReqs, "ok")) =>
              /\ Len(Fetches(qReqs')) = Len(Fetches(qReqs)) + 1
              /\ Len(qReqs') = Len(qReqs)
              /\ qReqs'[Len(qReqs')] = NewReq("fetch", Undef, <<>>, Undef)
              /\ posts' = posts
        /\ Len(Fetches(qReqs')) < Len(Fetches(qReqs)) \/ posts' # posts =>
              \E i \in 1..Len(qReqs) :
                  /\ qReqs[i].kind = "fetch"
                  /\ qReqs[i].st \in {"ok", "fail"}
                  /\ qReqs' = RemoveAt(qReqs, i)
                  /\ qReqs[i].st = "fail" => posts' = posts
                  /\ qReqs[i].st = "ok" =>
                        posts' = (IF qReqs[i].resp.posts = Undef THEN <<>>
                                  ELSE qReqs[i].resp.posts.e)
      ]_vars

\* C18's case: the list shows as posted the post that was review_ready
\* when the queue was mounted: it was published, and the reload came back.
C18_Witness ==
    /\ Len(posts) = 2
    /\ posts[1].status = Str("posted")
    /\ posts[2].status = Str("SCHEDULED")
    /\ qReqs = <<>>

\* C24: once nothing is in flight, the post list is the server's posts as
\* they are after the last transition that succeeded (the last list fetch
\* having succeeded with a posts field).
C24_NoStaleOverwrite ==
    (qReqs = <<>> /\ qError = Null /\ qFetched # Undef /\ qFetched.posts # Undef) =>
        posts = srvPosts

\* C26: the step that starts a transition on a post, taken right after a
\* failed transition on another post has set the action error, leaves the
\* action error as it is.
C26_ErrorsArePerPost ==
    [][ ( /\ qLast.op = "actionFail"
          /\ Len(qReqs') = Len(qReqs) + 1
          /\ qReqs'[Len(qReqs')].kind \in {"publish", "schedule"}
          /\ qReqs'[Len(qReqs')].row.id # qLast.row )
        => actionError' = actionError
      ]_vars

C25_StaleCompletionIgnored ==
    dbLast.op \in {"configLoaded", "postsLoaded"} => dbLast.brand = dbLast.shown

\* C27: the route changes only in the step in which a dashboard load fails
\* with 401 or 403, to the login page and without an error being set; a
\* dashboard load failing otherwise sets the page's error and stays; a
\* failed config load, config save, list fetch or transition, 401 and 403
\* included, stays on the page and sets the child's message or error.
C27_RedirectOnlyAtDashboardLoad ==
    /\ [][pathname' # pathname =>
            /\ dbLast'.op = "dashboardFailed"
            /\ dbLast'.status \in {401, 403}
            /\ pathname' = "/login"
            /\ dbError' = dbError]_vars
    /\ []((dbLast.op = "dashboardFailed" /\ dbLast.status \in {401, 403}) => pathname = "/login")
    /\ []((dbLast.op = "dashboardFailed" /\ dbLast.status \notin {401, 403}) =>
            pathname = "/dashboard" /\ dbError # Null /\ ~dbLoading)
    /\ [](dbLast.op \in {"configFailed", "saveFailed"} =>
            pathname = "/dashboard" /\ children.edMessage # Null)
    /\ [](dbLast.op = "postsFailed" => pathname = "/dashboard" /\ children.pqError # Null)
    /\ [](dbLast.op = "publishFailed" => pathname = "/dashboard" /\ children.actionError # Null)

C27_Witness ==
    /\ dbLast.op = "publishFailed"
    /\ dbLast.status = 403
    /\ pathname = "/dashboard"
    /\ children.actionError = Str("Not authorized")
    /\ dbError = Null

====
